---- MODULE Spec2Model ----
(***************************************************************************)
(* CyberCheck: the credential authority (supabase/functions/auth), the     *)
(* device binding it enforces, and the student check-in orchestrator with  *)
(* its geolocation and face gates.                                         *)
(*                                                                         *)
(* Time is counted in minutes.  Strings that the code inspects character   *)
(* by character (login, password) are sequences of one-character strings.  *)
(* Tokens are numbers: 0 is "no token", the n-th generated token is n.     *)
(***************************************************************************)
EXTENDS Integers, Sequences, FiniteSets, Bags, TLC

VARIABLES
    users,           \* table users: account id -> row
    sessions,        \* table sessions: set of rows
    login_attempts,  \* table login_attempts: bag of rows
    activity_logs,   \* table activity_logs: bag of rows
    ip_rules,        \* table ip_rules: set of rows
    now,             \* the clock, in minutes
    ticks,           \* how often the clock advanced
    tokCtr,          \* number of tokens generated so far
    issued,          \* the tokens handed to clients in login responses
    pc,              \* per request slot: the handler step that runs next
    req,             \* per request slot: the request being served (or served last)
    loc,             \* per request slot: the handler's local variables
    resp,            \* per request slot: the response sent last
    lessons,         \* table lessons: set of rows
    attendance,      \* table attendance: set of rows, unique per (lesson, student)
    group,           \* table student_groups: the students of the teacher's group
    teacher,         \* the teacher's page: the step of startLesson that runs next
    checkin,         \* per client: the state of the StudentCheckin component
    faceCapture,     \* per client: the state of the FaceCapture component
    task,            \* per client: the check-in handler in flight and its locals
    media            \* per client: the camera start in flight, the streams left open

authVars == <<users, sessions, login_attempts, activity_logs, ip_rules,
              tokCtr, issued, pc, req, loc, resp>>

timeVars == <<now, ticks>>

authTables == <<users, sessions, login_attempts, ip_rules, tokCtr, issued,
                pc, req, loc, resp>>

checkinVars == <<lessons, attendance, group, teacher, checkin, faceCapture, task,
                 media>>

----------------------------------------------------------------------------
(* Bounds of the model *)

MaxTokens == 4

MaxAttempts == 2

MaxLogs == 2

MaxTicks == 1

MaxLessons == 1

(* Program constants *)

RateLimitMax == 5

RateLimitWindow == 15

PruneWindow == 1440

AccessWindow == 720

RefreshWindow == 10080

Pbkdf2Iterations == 100000

DescriptorLength == 128

FaceMatchThreshold == 5000

LivenessSamples == 3

MinLivenessPass == 2

MinAccuracy == 10

MaxAccuracy == 10000

DefaultRadius == 120

PinValidity == 1

NULL == "null"

\* req.headers.get("user-agent") of the requests
UserAgent == "ua1"

NoUser == "none"

Procs == {"p1", "p2"}

Accounts == {"stu", "adm"}

AllTables == {"users", "sessions", "login_attempts", "activity_logs", "ip_rules",
              "lessons", "attendance"}

----------------------------------------------------------------------------
(* Strings *)

RECURSIVE TrimLeft(_)
TrimLeft(s) == IF s # <<>> /\ Head(s) = " " THEN TrimLeft(Tail(s)) ELSE s

RECURSIVE TrimRight(_)
TrimRight(s) ==
    IF s # <<>> /\ s[Len(s)] = " " THEN TrimRight(SubSeq(s, 1, Len(s) - 1)) ELSE s

NotAngle(c) == c \notin {"<", ">"}

\* input.trim().replace(/[<>]/g, ""): trim first, then drop the angle brackets
SanitizeInput(input) == SelectSeq(TrimRight(TrimLeft(input)), NotAngle)

----------------------------------------------------------------------------
(* Password hashing.  The PBKDF2 digest of (password, salt, iterations) is  *)
(* the term <<password, salt, iterations>>: equal exactly when all three    *)
(* are equal.  A stored hash is the parsed "$pbkdf2$<it>$<salt>$<digest>"   *)
(* string, or a legacy plain text.                                          *)

Pbkdf2(password, salt, iterations) == <<password, salt, iterations>>

HashPassword(password, salt) ==
    [fmt |-> "pbkdf2", text |-> <<>>, iterations |-> Pbkdf2Iterations,
     salt |-> salt, digest |-> Pbkdf2(password, salt, Pbkdf2Iterations)]

PlainHash(password) ==
    [fmt |-> "plain", text |-> password, iterations |-> 0,
     salt |-> "", digest |-> <<>>]

VerifyPassword(password, storedHash) ==
    IF storedHash.fmt = "pbkdf2"
    THEN Pbkdf2(password, storedHash.salt, storedHash.iterations) = storedHash.digest
    ELSE password = storedHash.text

\* A faulty variant: both tokens present is enough, they are not compared
ValidateCSRFToken_Present(headerCSRF, clientCSRF) ==
    clientCSRF # NULL /\ headerCSRF # NULL

\* validateCSRFToken: both tokens present and equal
ValidateCSRFToken(headerCSRF, clientCSRF) ==
    clientCSRF # NULL /\ headerCSRF # NULL /\ clientCSRF = headerCSRF

----------------------------------------------------------------------------
(* The SQL helper functions *)

\* A faulty variant: a rule without an expiry never blocks
IsIpBlocked_ExpiringOnly(check_ip) ==
    \E r \in ip_rules :
        /\ r.ip_address = check_ip
        /\ r.rule_type = "blacklist"
        /\ r.expires_at > now

\* is_ip_blocked(check_ip): a blacklist rule without expiry or not yet expired
IsIpBlocked(check_ip) ==
    \E r \in ip_rules :
        /\ r.ip_address = check_ip
        /\ r.rule_type = "blacklist"
        /\ (r.expires_at = 0 \/ r.expires_at > now)

\* SELECT COUNT(*): the number of rows of bag B whose value is in S
CountRows(B, S) == BagCardinality([e \in S \cap BagToSet(B) |-> B[e]])

RecentFailures(check_login, check_ip) ==
    LET Hit(a) == /\ (a.login = check_login \/ a.ip_address = check_ip)
                  /\ a.success = FALSE
                  /\ a.created_at > now - RateLimitWindow
    IN  CountRows(login_attempts, {a \in BagToSet(login_attempts) : Hit(a)})

\* A faulty variant: the limit is reached only above the maximum
IsLoginRateLimited_Strict(check_login, check_ip) ==
    RecentFailures(check_login, check_ip) > RateLimitMax

IsLoginRateLimited(check_login, check_ip) ==
    RecentFailures(check_login, check_ip) >= RateLimitMax

\* INSERT the attempt, then DELETE the rows older than 24 hours
RecordLoginAttempt(attempts, p_login, p_ip_address, p_success) ==
    LET row == [login |-> p_login, ip_address |-> p_ip_address,
                success |-> p_success, created_at |-> now]
        all == attempts (+) SetToBag({row})
        keep == {e \in BagToSet(all) : ~(e.created_at < now - PruneWindow)}
    IN  [e \in keep |-> all[e]]

LogRow(user_id, action, reason, ip, user_agent) ==
    [user_id |-> user_id, action |-> action, reason |-> reason, ip_address |-> ip,
     user_agent |-> user_agent]

AppendLog(logs, row) == logs (+) SetToBag({row})

\* .from("users").select("*").eq("login", l).eq("is_active", true).maybeSingle()
FindUser(l) ==
    LET hit == {a \in Accounts : users[a].login = l /\ users[a].is_active}
    IN  IF Cardinality(hit) = 1 THEN CHOOSE a \in hit : TRUE ELSE NoUser

UserSessions(S, uid) == {s \in S : s.user_id = uid}

\* A faulty variant: the earlier sessions are kept
DeleteUserSessions_Keep(S, uid) == S

\* .from("sessions").delete().eq("user_id", user.id)
DeleteUserSessions(S, uid) == {s \in S : s.user_id # uid}

\* A faulty variant: the bound device is the one refused
DeviceMismatch_Inverted(role, deviceFingerprint, fingerprint) ==
    /\ role = "student"
    /\ deviceFingerprint # NULL
    /\ deviceFingerprint = fingerprint

\* user.role === "student" and deviceFingerprint && deviceFingerprint !== fingerprint
DeviceMismatch(role, deviceFingerprint, fingerprint) ==
    /\ role = "student"
    /\ deviceFingerprint # NULL
    /\ deviceFingerprint # fingerprint

\* A faulty variant: every session row is deleted
DeleteSessionByToken_All(S, token) == {}

\* logout: .from("sessions").delete().eq("token", token)
DeleteSessionByToken(S, token) == {s \in S : s.token # token}

\* A faulty variant: the refresh token is rotated with the access token
UpdateSessionToken_Rotate(S, refresh_token, token, expires_at) ==
    {IF s.refresh_token = refresh_token
     THEN [s EXCEPT !.token = token, !.refresh_token = token,
                    !.expires_at = expires_at]
     ELSE s : s \in S}

\* A faulty variant: the new access token goes into a second row
UpdateSessionToken_Insert(S, refresh_token, token, expires_at) ==
    S \cup {[s EXCEPT !.token = token, !.expires_at = expires_at] :
               s \in {x \in S : x.refresh_token = refresh_token}}

\* refresh: .update({ token, expires_at }).eq("refresh_token", refresh_token)
UpdateSessionToken(S, refresh_token, token, expires_at) ==
    {IF s.refresh_token = refresh_token
     THEN [s EXCEPT !.token = token, !.expires_at = expires_at]
     ELSE s : s \in S}

\* A faulty variant: the expiry of the session is not looked at
LiveSession_AnyAge(session_token) == {s \in sessions : s.token = session_token}

\* get_user_role_from_token, get_user_id_from_token: expires_at > now()
LiveSession(session_token) ==
    {s \in sessions : s.token = session_token /\ s.expires_at > now}

GetUserRoleFromToken(session_token) ==
    IF LiveSession(session_token) = {} THEN NULL
    ELSE users[(CHOOSE s \in LiveSession(session_token) : TRUE).user_id].role

GetUserIdFromToken(session_token) ==
    IF LiveSession(session_token) = {} THEN NoUser
    ELSE (CHOOSE s \in LiveSession(session_token) : TRUE).user_id

\* validate: a row with this token whose expires_at >= now
ValidSession(token) ==
    {s \in sessions : s.token = token /\ s.expires_at >= now}

\* refresh: a row with this refresh token whose refresh_expires_at >= now
RefreshableSession(refresh_token) ==
    {s \in sessions : s.refresh_token = refresh_token /\ s.refresh_expires_at >= now}

----------------------------------------------------------------------------
(* Requests and responses *)

NoReq ==
    [action |-> "none", ip |-> "", user_agent |-> "", login |-> <<>>,
     password |-> <<>>, fingerprint |-> NULL, csrf_body |-> NULL,
     csrf_header |-> NULL, token |-> 0, targetIP |-> "", expiresIn |-> 0]

LoginReq(ip, login, password, fingerprint, csrfBody, csrfHeader) ==
    [NoReq EXCEPT !.action = "login", !.ip = ip, !.user_agent = UserAgent,
                  !.login = login, !.password = password,
                  !.fingerprint = fingerprint, !.csrf_body = csrfBody,
                  !.csrf_header = csrfHeader]

TokenReq(action, ip, token) ==
    [NoReq EXCEPT !.action = action, !.ip = ip, !.user_agent = UserAgent,
                  !.token = token]

IpRuleReq(action, ip, token, targetIP, expiresIn) ==
    [TokenReq(action, ip, token) EXCEPT !.targetIP = targetIP,
                                        !.expiresIn = expiresIn]

\* The account fields that validate returns
NoProjection ==
    [id |-> NoUser, login |-> <<>>, full_name |-> "", role |-> "",
     is_active |-> FALSE]

Projection(a) ==
    [id |-> a, login |-> users[a].login, full_name |-> users[a].full_name,
     role |-> users[a].role, is_active |-> users[a].is_active]

NoResp ==
    [status |-> 0, success |-> FALSE, reason |-> "", uid |-> NoUser,
     token |-> 0, refresh_token |-> 0, user |-> NoProjection, accessed |-> {}]

Reject(status, reason) == [NoResp EXCEPT !.status = status, !.reason = reason]

\* The response r of a handler that read or wrote these tables on its way
Touched(r, tables) == [r EXCEPT !.accessed = tables]

NoLoc ==
    [uid |-> NoUser, hash |-> PlainHash(<<>>), role |-> "", dfp |-> NULL,
     token |-> 0, refresh_token |-> 0, expires_at |-> 0, refresh_expires_at |-> 0]

Idle == \A p \in Procs : pc[p] = "idle"

\* The tables that only grow stay within the model's bounds
RoomFor(maxAttempts, maxLogs) ==
    /\ BagCardinality(login_attempts) < maxAttempts
    /\ BagCardinality(activity_logs) < maxLogs

\* The handler of slot p ends with response r
Finish(p, r) ==
    /\ pc' = [pc EXCEPT ![p] = "idle"]
    /\ loc' = [loc EXCEPT ![p] = NoLoc]
    /\ resp' = [resp EXCEPT ![p] = r]

\* A request arrives at slot p
Receive(p, r, first) ==
    /\ pc[p] = "idle"
    /\ pc' = [pc EXCEPT ![p] = first]
    /\ req' = [req EXCEPT ![p] = r]
    /\ resp' = [resp EXCEPT ![p] = NoResp]
    /\ UNCHANGED checkinVars
    /\ UNCHANGED <<users, sessions, login_attempts, activity_logs, ip_rules,
                   tokCtr, issued, loc, now, ticks>>

----------------------------------------------------------------------------
(* action = "login" *)

RecvLogin(p, ip, login, password, fingerprint, csrfBody, csrfHeader) ==
    /\ tokCtr + 2 <= MaxTokens
    /\ Receive(p, LoginReq(ip, login, password, fingerprint, csrfBody, csrfHeader),
               "login_check")

\* IP block, CSRF, input validation, rate limit, account lookup
LoginCheck(p) ==
    LET r == req[p]
        sanitizedLogin == SanitizeInput(r.login)
        sanitizedPassword == SanitizeInput(r.password)
        user == FindUser(sanitizedLogin)
    IN
    /\ pc[p] = "login_check"
    /\ UNCHANGED checkinVars
    /\ UNCHANGED <<users, sessions, activity_logs, ip_rules, tokCtr, issued, req,
                   now, ticks>>
    /\ IF IsIpBlocked(r.ip)
       THEN /\ Finish(p, Touched(Reject(403, "ip_blocked"), {"ip_rules"}))
            /\ UNCHANGED login_attempts
       ELSE IF ~ValidateCSRFToken(r.csrf_header, r.csrf_body)
       THEN /\ Finish(p, Touched(Reject(403, "csrf"), {"ip_rules"}))
            /\ UNCHANGED login_attempts
       ELSE IF sanitizedLogin = <<>> \/ sanitizedPassword = <<>>
       THEN /\ Finish(p, Touched(Reject(400, "validation"), {"ip_rules"}))
            /\ UNCHANGED login_attempts
       ELSE IF IsLoginRateLimited(sanitizedLogin, r.ip)
       THEN /\ Finish(p, Touched(Reject(429, "rate_limited"),
                                  {"ip_rules", "login_attempts"}))
            /\ UNCHANGED login_attempts
       ELSE IF user = NoUser
       THEN /\ login_attempts' =
                   RecordLoginAttempt(login_attempts, sanitizedLogin, r.ip, FALSE)
            /\ Finish(p, Touched(Reject(401, "invalid_credentials"),
                                  {"ip_rules", "login_attempts", "users"}))
       ELSE /\ pc' = [pc EXCEPT ![p] = "login_verify"]
            /\ loc' = [loc EXCEPT ![p] =
                          [NoLoc EXCEPT !.uid = user,
                                        !.hash = users[user].password_hash,
                                        !.role = users[user].role,
                                        !.dfp = users[user].device_fingerprint]]
            /\ UNCHANGED <<login_attempts, resp>>

\* Password check, hash upgrade, device binding, attempt record, token generation
LoginVerify(p, salt) ==
    LET r == req[p]
        l == loc[p]
        sanitizedLogin == SanitizeInput(r.login)
        sanitizedPassword == SanitizeInput(r.password)
        upgraded == IF l.hash.fmt # "pbkdf2"
                    THEN [users EXCEPT ![l.uid].password_hash =
                                          HashPassword(sanitizedPassword, salt)]
                    ELSE users
    IN
    /\ pc[p] = "login_verify"
    /\ UNCHANGED checkinVars
    /\ UNCHANGED <<sessions, ip_rules, issued, req, now, ticks>>
    /\ IF ~VerifyPassword(sanitizedPassword, l.hash)
       THEN /\ login_attempts' =
                   RecordLoginAttempt(login_attempts, sanitizedLogin, r.ip, FALSE)
            /\ activity_logs' = AppendLog(activity_logs,
                   LogRow(l.uid, "login_failed", "wrong_password", r.ip, r.user_agent))
            /\ Finish(p, Touched(Reject(401, "invalid_credentials"),
                      {"ip_rules", "login_attempts", "users", "activity_logs"}))
            /\ UNCHANGED <<users, tokCtr>>
       ELSE IF DeviceMismatch(l.role, l.dfp, r.fingerprint)
       THEN /\ users' = upgraded
            /\ login_attempts' =
                   RecordLoginAttempt(login_attempts, sanitizedLogin, r.ip, FALSE)
            /\ activity_logs' = AppendLog(activity_logs,
                   LogRow(l.uid, "login_failed", "device_mismatch", r.ip, r.user_agent))
            /\ Finish(p, Touched(Reject(403, "device_mismatch"),
                      {"ip_rules", "login_attempts", "users", "activity_logs"}))
            /\ UNCHANGED tokCtr
       ELSE /\ users' = IF l.role = "student" /\ l.dfp = NULL
                        THEN [upgraded EXCEPT ![l.uid].device_fingerprint = r.fingerprint]
                        ELSE upgraded
            /\ login_attempts' =
                   RecordLoginAttempt(login_attempts, sanitizedLogin, r.ip, TRUE)
            /\ tokCtr' = tokCtr + 2
            /\ loc' = [loc EXCEPT ![p].token = tokCtr + 1,
                                  ![p].refresh_token = tokCtr + 2,
                                  ![p].expires_at = now + AccessWindow,
                                  ![p].refresh_expires_at = now + RefreshWindow]
            /\ pc' = [pc EXCEPT ![p] = "login_delete"]
            /\ UNCHANGED <<activity_logs, resp>>

\* Delete old sessions for this user (single session policy)
LoginDelete(p) ==
    /\ pc[p] = "login_delete"
    /\ sessions' = DeleteUserSessions(sessions, loc[p].uid)
    /\ pc' = [pc EXCEPT ![p] = "login_insert"]
    /\ UNCHANGED checkinVars
    /\ UNCHANGED <<users, login_attempts, activity_logs, ip_rules, tokCtr, issued,
                   req, loc, resp, now, ticks>>

\* Insert the session row; on sessionError answer 500
LoginInsert(p, insertOk) ==
    LET r == req[p]
        l == loc[p]
        row == [user_id |-> l.uid, token |-> l.token,
                refresh_token |-> l.refresh_token, fingerprint |-> r.fingerprint,
                expires_at |-> l.expires_at,
                refresh_expires_at |-> l.refresh_expires_at]
    IN
    /\ pc[p] = "login_insert"
    /\ UNCHANGED checkinVars
    /\ UNCHANGED <<users, login_attempts, ip_rules, tokCtr, req, now, ticks>>
    /\ IF insertOk
       THEN /\ sessions' = sessions \cup {row}
            /\ activity_logs' = AppendLog(activity_logs,
                   LogRow(l.uid, "login_success", "", r.ip, r.user_agent))
            /\ issued' = issued \cup {[uid |-> l.uid, token |-> l.token,
                                       refresh_token |-> l.refresh_token]}
            /\ Finish(p, [NoResp EXCEPT !.status = 200, !.success = TRUE,
                                        !.reason = "ok", !.uid = l.uid,
                                        !.token = l.token,
                                        !.refresh_token = l.refresh_token,
                                        !.user = Projection(l.uid),
                                        !.accessed = AllTables \ {"lessons", "attendance"}])
       ELSE /\ Finish(p, Touched(Reject(500, "session_error"),
                      {"ip_rules", "login_attempts", "users", "sessions"}))
            /\ UNCHANGED <<sessions, activity_logs, issued>>

----------------------------------------------------------------------------
(* action = "logout", "refresh", "validate" *)

RecvToken(p, action, ip, token) ==
    /\ action \in {"logout", "refresh", "validate"}
    /\ action = "refresh" => tokCtr + 1 <= MaxTokens
    /\ Receive(p, TokenReq(action, ip, token), action)

Logout(p) ==
    LET r == req[p]
        session == {s \in sessions : s.token = r.token}
    IN
    /\ pc[p] = "logout"
    /\ UNCHANGED checkinVars
    /\ UNCHANGED <<users, login_attempts, ip_rules, tokCtr, issued, req, now, ticks>>
    /\ IF IsIpBlocked(r.ip)
       THEN /\ Finish(p, Touched(Reject(403, "ip_blocked"), {"ip_rules"}))
            /\ UNCHANGED <<sessions, activity_logs>>
       ELSE IF r.token # 0 /\ session # {}
       THEN /\ sessions' = DeleteSessionByToken(sessions, r.token)
            /\ activity_logs' = AppendLog(activity_logs,
                   LogRow((CHOOSE s \in session : TRUE).user_id, "logout", "",
                          r.ip, r.user_agent))
            /\ Finish(p, [NoResp EXCEPT !.status = 200, !.success = TRUE,
                                        !.reason = "ok",
                                        !.accessed = {"ip_rules", "sessions",
                                                      "activity_logs"}])
       ELSE /\ Finish(p, [NoResp EXCEPT !.status = 200, !.success = TRUE,
                                        !.reason = "ok",
                                        !.accessed = IF r.token # 0
                                                     THEN {"ip_rules", "sessions"}
                                                     ELSE {"ip_rules"}])
            /\ UNCHANGED <<sessions, activity_logs>>

\* Look the refresh token up and generate the new access token
RefreshSelect(p) ==
    LET r == req[p]
        session == RefreshableSession(r.token)
    IN
    /\ pc[p] = "refresh"
    /\ UNCHANGED checkinVars
    /\ UNCHANGED <<users, sessions, login_attempts, activity_logs, ip_rules, issued,
                   req, now, ticks>>
    /\ IF IsIpBlocked(r.ip)
       THEN /\ Finish(p, Touched(Reject(403, "ip_blocked"), {"ip_rules"}))
            /\ UNCHANGED tokCtr
       ELSE IF r.token = 0
       THEN /\ Finish(p, Touched(Reject(400, "validation"), {"ip_rules"}))
            /\ UNCHANGED tokCtr
       ELSE IF Cardinality(session) # 1
       THEN /\ Finish(p, Touched(Reject(401, "invalid_refresh_token"),
                                  {"ip_rules", "sessions", "users"}))
            /\ UNCHANGED tokCtr
       ELSE /\ tokCtr' = tokCtr + 1
            /\ loc' = [loc EXCEPT ![p].uid = (CHOOSE s \in session : TRUE).user_id,
                                  ![p].token = tokCtr + 1,
                                  ![p].refresh_token = r.token,
                                  ![p].expires_at = now + AccessWindow]
            /\ pc' = [pc EXCEPT ![p] = "refresh_update"]
            /\ UNCHANGED resp

\* .update({token, expires_at}).eq("refresh_token", refresh_token)
RefreshUpdate(p, updateOk) ==
    LET l == loc[p]
    IN
    /\ pc[p] = "refresh_update"
    /\ UNCHANGED checkinVars
    /\ UNCHANGED <<users, login_attempts, activity_logs, ip_rules, tokCtr, issued,
                   req, now, ticks>>
    /\ IF updateOk
       THEN /\ sessions' = UpdateSessionToken(sessions, l.refresh_token, l.token,
                                              l.expires_at)
            /\ Finish(p, [NoResp EXCEPT !.status = 200, !.success = TRUE,
                                        !.reason = "ok", !.uid = l.uid,
                                        !.token = l.token,
                                        !.accessed = {"ip_rules", "sessions", "users"}])
       ELSE /\ Finish(p, Touched(Reject(500, "refresh_error"),
                                  {"ip_rules", "sessions", "users"}))
            /\ UNCHANGED sessions

Validate(p) ==
    LET r == req[p]
        session == ValidSession(r.token)
    IN
    /\ pc[p] = "validate"
    /\ UNCHANGED checkinVars
    /\ UNCHANGED <<users, sessions, login_attempts, activity_logs, ip_rules, tokCtr,
                   issued, req, now, ticks>>
    /\ IF IsIpBlocked(r.ip)
       THEN Finish(p, Touched(Reject(403, "ip_blocked"), {"ip_rules"}))
       ELSE IF r.token = 0
       THEN Finish(p, [NoResp EXCEPT !.status = 200, !.reason = "invalid",
                                     !.accessed = {"ip_rules"}])
       ELSE IF Cardinality(session) # 1
       THEN Finish(p, [NoResp EXCEPT !.status = 200, !.reason = "invalid",
                                     !.accessed = {"ip_rules", "sessions", "users"}])
       ELSE Finish(p, [NoResp EXCEPT !.status = 200, !.success = TRUE,
                                     !.reason = "valid",
                                     !.uid = (CHOOSE s \in session : TRUE).user_id,
                                     !.user = Projection((CHOOSE s \in session : TRUE).user_id),
                                     !.token = r.token,
                                     !.accessed = {"ip_rules", "sessions", "users"}])

----------------------------------------------------------------------------
(* action = "block-ip", "unblock-ip" *)

RecvIpRule(p, action, ip, token, targetIP, expiresIn) ==
    /\ action \in {"block-ip", "unblock-ip"}
    /\ Receive(p, IpRuleReq(action, ip, token, targetIP, expiresIn), "ip_rule")

\* expires_at 0 is NULL: the rule never expires
IpRuleRow(ip_address, created_by, expires_at) ==
    [ip_address |-> ip_address, rule_type |-> "blacklist",
     created_by |-> created_by, expires_at |-> expires_at]

SameIpRule(r, ip_address, rule_type) ==
    r.ip_address = ip_address /\ r.rule_type = rule_type

\* upsert(row, { onConflict: "ip_address,rule_type" })
UpsertIpRule(R, row) ==
    {r \in R : ~SameIpRule(r, row.ip_address, row.rule_type)} \cup {row}

\* delete().eq("ip_address", targetIP).eq("rule_type", "blacklist")
DeleteIpRule(R, targetIP) == {r \in R : ~SameIpRule(r, targetIP, "blacklist")}

\* The admin check by session token, then the rule write and its log entry
IpRule(p, upsertOk) ==
    LET r == req[p]
        userId == GetUserIdFromToken(r.token)
        expiresAt == IF r.expiresIn # 0 THEN now + r.expiresIn ELSE 0
        adminTables == {"ip_rules", "sessions", "users"}
    IN
    /\ pc[p] = "ip_rule"
    /\ UNCHANGED checkinVars
    /\ UNCHANGED <<users, sessions, login_attempts, tokCtr, issued, req, now, ticks>>
    /\ IF IsIpBlocked(r.ip)
       THEN /\ Finish(p, Touched(Reject(403, "ip_blocked"), {"ip_rules"}))
            /\ UNCHANGED <<ip_rules, activity_logs>>
       ELSE IF GetUserRoleFromToken(r.token) # "admin"
       THEN /\ Finish(p, Touched(Reject(403, "admin_only"), adminTables))
            /\ UNCHANGED <<ip_rules, activity_logs>>
       ELSE IF r.action = "block-ip" /\ ~upsertOk
       THEN /\ Finish(p, Touched(Reject(500, "ip_rule_error"), adminTables))
            /\ UNCHANGED <<ip_rules, activity_logs>>
       ELSE /\ ip_rules' =
                   IF r.action = "block-ip"
                   THEN UpsertIpRule(ip_rules, IpRuleRow(r.targetIP, userId, expiresAt))
                   ELSE DeleteIpRule(ip_rules, r.targetIP)
            /\ activity_logs' = AppendLog(activity_logs,
                   LogRow(userId,
                          IF r.action = "block-ip" THEN "ip_blocked"
                                                   ELSE "ip_unblocked",
                          r.targetIP, r.ip, ""))
            /\ Finish(p, [NoResp EXCEPT !.status = 200, !.success = TRUE,
                                        !.reason = "ok", !.uid = userId,
                                        !.accessed = adminTables \cup
                                                     {"activity_logs"}])

----------------------------------------------------------------------------
(* action = "list-blocked-ips", "login-attempts", "hash-password", others *)

RecvOther(p, action, ip, token, password) ==
    /\ action \in {"list-blocked-ips", "login-attempts", "hash-password", "unknown"}
    /\ Receive(p, [TokenReq(action, ip, token) EXCEPT !.password = password], "other")

\* The actions that write no table: the admin listings, the hash helper and
\* the 404 of an unknown action
Other(p) ==
    LET r == req[p]
    IN
    /\ pc[p] = "other"
    /\ UNCHANGED checkinVars
    /\ UNCHANGED <<users, sessions, login_attempts, activity_logs, ip_rules,
                   tokCtr, issued, req, now, ticks>>
    /\ IF IsIpBlocked(r.ip)
       THEN Finish(p, Touched(Reject(403, "ip_blocked"), {"ip_rules"}))
       ELSE IF r.action = "hash-password"
       THEN IF r.password = <<>>
            THEN Finish(p, Touched(Reject(400, "password_required"), {"ip_rules"}))
            ELSE Finish(p, [NoResp EXCEPT !.status = 200, !.reason = "hash",
                                          !.accessed = {"ip_rules"}])
       ELSE IF r.action = "unknown"
       THEN Finish(p, Touched(Reject(404, "unknown_action"), {"ip_rules"}))
       ELSE IF GetUserRoleFromToken(r.token) # "admin"
       THEN Finish(p, Touched(Reject(403, "admin_only"),
                              {"ip_rules", "sessions", "users"}))
       ELSE Finish(p, [NoResp EXCEPT
                         !.status = 200, !.success = TRUE, !.reason = "ok",
                         !.accessed = {"ip_rules", "sessions", "users"} \cup
                                      (IF r.action = "login-attempts"
                                       THEN {"login_attempts"} ELSE {})])

----------------------------------------------------------------------------
(* The administrator's user page and the clock *)

\* .from("users").update({ device_fingerprint: null }).eq("id", user.id)
ResetDeviceBinding(a) ==
    /\ users[a].device_fingerprint # NULL
    /\ users' = [users EXCEPT ![a].device_fingerprint = NULL]
    /\ UNCHANGED checkinVars
    /\ UNCHANGED <<sessions, login_attempts, activity_logs, ip_rules, tokCtr, issued,
                   pc, req, loc, resp, now, ticks>>

\* The user form of the administrator: the typed password is stored as it is
\* .from("users").update({ ..., password_hash: sanitizedPassword }).eq("id", id)
SetPassword(a, password) ==
    /\ SanitizeInput(password) # <<>>
    /\ users' = [users EXCEPT ![a].password_hash = PlainHash(SanitizeInput(password))]
    /\ UNCHANGED checkinVars
    /\ UNCHANGED <<sessions, login_attempts, activity_logs, ip_rules, tokCtr, issued,
                   pc, req, loc, resp, now, ticks>>

Tick(d) ==
    /\ ticks < MaxTicks
    /\ now' = now + d
    /\ ticks' = ticks + 1
    /\ UNCHANGED <<authVars, checkinVars>>

----------------------------------------------------------------------------
(* Check-in: lessons, the student's check-in page and its face capture *)

\* The browser tabs in which the student account "stu" has the check-in page open
Clients == {"c1", "c2"}

Student == "stu"

\* getFingerprint(): the fingerprint of the device the page runs on
GetFingerprint(c) == IF c = "c1" THEN "fp1" ELSE "fp2"

\* A face descriptor of 128 numbers is a point of a line: len its length and
\* x its first coordinate in units of 0.0001, all other coordinates zero
NoEmbedding == [len |-> 0, x |-> 0]

Abs(n) == IF n < 0 THEN 0 - n ELSE n

CompareFaceEmbeddings(embedding1, embedding2) ==
    IF embedding1.len # DescriptorLength \/ embedding2.len # DescriptorLength
    THEN [match |-> FALSE, distance |-> 10000]
    ELSE LET distance == Abs(embedding1.x - embedding2.x)
         IN  [match |-> distance < FaceMatchThreshold, distance |-> distance]

\* The number of liveness samples that passed
LivenessPass(samples) == Cardinality({i \in 1..LivenessSamples : samples[i]})

\* A faulty variant: one passed sample is enough
LivenessFailed_One(livenessPass) == livenessPass < 1

\* if (livenessPass < 2)
LivenessFailed(livenessPass) == livenessPass < MinLivenessPass

\* accuracy in tenths of a metre; a negative accuracy is a failed position read
DetectFakeGPS(emulator, accuracy) ==
    LET r1 == IF emulator THEN <<"emulator">> ELSE <<>>
    IN  IF accuracy < 0
        THEN [isFake |-> emulator, reasons |-> r1 \o <<"gps_check_error">>]
        ELSE [isFake |-> \/ emulator
                         \/ accuracy < MinAccuracy
                         \/ accuracy = 0
                         \/ accuracy > MaxAccuracy,
              reasons |-> r1 \o (IF accuracy < MinAccuracy
                                 THEN <<"too_precise">> ELSE <<>>)
                             \o (IF accuracy = 0 \/ accuracy > MaxAccuracy
                                 THEN <<"bad_accuracy">> ELSE <<>>)]

\* lesson.radius_meters || 120
RadiusMeters(lesson) ==
    IF lesson.radius_meters # 0 THEN lesson.radius_meters ELSE DefaultRadius

IsWithinRadius(distance, radiusMeters) == distance <= radiusMeters

NoLesson == [id |-> 0, radius_meters |-> 0, pin_expires_at |-> 0]

NoFakeCheck == [isFake |-> FALSE, reasons |-> <<>>]

NoLocation == [has |-> FALSE, distance |-> 0, fakeCheck |-> NoFakeCheck]

NoResult == [shown |-> FALSE, success |-> FALSE, status |-> "", message |-> ""]

Result(success, status, message) ==
    [shown |-> TRUE, success |-> success, status |-> status, message |-> message]

NoTask == [pc |-> "idle", lesson |-> NoLesson, distance |-> 0,
           fakeCheck |-> NoFakeCheck, check_in_time |-> 0, existing |-> FALSE,
           livenessPass |-> 0, embedding |-> NoEmbedding]

\* No camera start is in flight and no stream was left open
NoMedia == [init |-> "idle", leaked |-> 0]

NoFaceCapture == [mounted |-> FALSE, status |-> "loading", faceDetected |-> FALSE,
                  stream |-> FALSE]

\* .eq("pin_code", pinCode).eq("is_active", true).gte("pin_expires_at", now)
FindLesson(pinCode) ==
    {l \in lessons : l.pin_code = pinCode /\ l.is_active /\ l.pin_expires_at >= now}

SamePair(r, lesson_id, student_id) ==
    r.lesson_id = lesson_id /\ r.student_id = student_id

PairRows(att, lesson_id, student_id) ==
    {r \in att : SamePair(r, lesson_id, student_id)}

AttendanceRow(lesson_id, student_id, status, check_in_time, distance, isFake, reason, fingerprint) ==
    [lesson_id |-> lesson_id, student_id |-> student_id, status |-> status,
     check_in_time |-> check_in_time, distance_meters |-> distance,
     is_fake_gps |-> isFake, suspicious_reason |-> reason,
     fingerprint |-> fingerprint]

\* The row startLesson creates: only lesson, student and status are given
AbsentRow(lesson_id, student_id) ==
    AttendanceRow(lesson_id, student_id, "absent", -1, -1, FALSE, NULL, NULL)

\* insert(rows): UNIQUE(lesson_id, student_id) fails the whole statement
InsertRows(att, rows) ==
    IF \E r \in rows : PairRows(att, r.lesson_id, r.student_id) # {}
    THEN att
    ELSE att \cup rows

\* A faulty variant: a plain insert, refused when the pair has a row
UpsertRow_InsertOnly(att, row) == InsertRows(att, {row})

\* upsert(row, { onConflict: "lesson_id,student_id" })
UpsertRow(att, row) ==
    (att \ PairRows(att, row.lesson_id, row.student_id)) \cup {row}

\* update(row).eq("id", existingRecord.id): the row of a pair keeps its id
UpdateRow(att, row) ==
    IF PairRows(att, row.lesson_id, row.student_id) # {}
    THEN UpsertRow(att, row)
    ELSE att

\* A faulty variant: the record is never inserted
WriteAttendance_UpdateOnly(att, existing, row) == UpdateRow(att, row)

\* completeCheckin: update the record read before, or insert a new one
WriteAttendance(att, existing, row) ==
    IF existing THEN UpdateRow(att, row) ELSE InsertRows(att, {row})

\* navigator.userAgent of the student's browser; the client sends no IP
CheckinLog(action, reason) == LogRow(Student, action, reason, "", "ua2")

\* No check-in handler and no teacher handler is between two of its steps
Quiet ==
    /\ \A c \in Clients : task[c].pc = "idle"
    /\ teacher.pc = "idle"

LogRoom == BagCardinality(activity_logs) < MaxLogs

\* await supabase.from("activity_logs").insert(row): the call resolves with an
\* error object when the write fails, and no caller looks at it
InsertLog(logs, row, ok) == IF ok THEN AppendLog(logs, row) ELSE logs

\* A faulty variant: a failed log write throws into the handler's catch block
ResultAfterLog_Throw(result, logOk) ==
    IF logOk THEN result ELSE Result(FALSE, "", "system_error")

\* The result the handler shows once its log write has resolved
ResultAfterLog(result, logOk) == result

\* A faulty variant: every student is taken to have a registered descriptor
HasFaceId_Always(userFaceEmbedding) == TRUE

\* if (userFaceEmbedding): the page holds a registered descriptor
HasFaceId(userFaceEmbedding) == userFaceEmbedding.len # 0

StepTo(c, step, result) ==
    [checkin[c] EXCEPT !.step = step, !.checkResult = result]

\* useEffect of the check-in page: fetch the student's registered descriptor
FetchFaceEmbedding(c) ==
    /\ ~checkin[c].fetched
    /\ checkin' = [checkin EXCEPT ![c].fetched = TRUE,
                                  ![c].userFaceEmbedding =
                                      IF users[Student].face_embedding.len # 0
                                      THEN users[Student].face_embedding
                                      ELSE checkin[c].userFaceEmbedding]
    /\ UNCHANGED <<authTables, media, activity_logs, timeVars, lessons, attendance, group,
                   teacher, faceCapture, task>>

\* handlePinChange with six digits, then handlePinSubmit; one handler per client
\* is in flight at a time
HandlePinSubmit(c, pinCode, mobile, emulator, accuracy, locOk, distance, logOk) ==
    LET found == FindLesson(pinCode)
        lesson == CHOOSE l \in found : TRUE
        lessonData == [id |-> lesson.id, radius_meters |-> lesson.radius_meters,
                       pin_expires_at |-> lesson.pin_expires_at]
        fakeCheck == DetectFakeGPS(emulator, accuracy)
        typed == [checkin[c] EXCEPT !.pin = pinCode, !.isChecking = FALSE]
    IN
    /\ checkin[c].step = "pin"
    /\ ~checkin[c].isChecking
    /\ task[c].pc = "idle"
    /\ IF ~mobile
       THEN /\ checkin' = [checkin EXCEPT ![c] =
                   [typed EXCEPT !.step = "result",
                                 !.checkResult = Result(FALSE, "", "mobile_only")]]
            /\ UNCHANGED <<activity_logs, faceCapture>>
       ELSE IF Cardinality(found) # 1
       THEN /\ checkin' = [checkin EXCEPT ![c] =
                   [typed EXCEPT !.step = "result",
                                 !.checkResult = Result(FALSE, "", "invalid_pin")]]
            /\ UNCHANGED <<activity_logs, faceCapture>>
       ELSE IF ~locOk
       THEN /\ checkin' = [checkin EXCEPT ![c] =
                   [typed EXCEPT !.step = "result", !.lessonData = lessonData,
                                 !.checkResult = Result(FALSE, "", "gps_error")]]
            /\ UNCHANGED <<activity_logs, faceCapture>>
       ELSE IF HasFaceId(checkin[c].userFaceEmbedding)
       THEN /\ checkin' = [checkin EXCEPT ![c] =
                   [typed EXCEPT !.step = "face", !.lessonData = lessonData,
                                 !.checkResult = NoResult,
                                 !.locationData = [has |-> TRUE,
                                                   distance |-> distance,
                                                   fakeCheck |-> fakeCheck]]]
            /\ faceCapture' = [faceCapture EXCEPT ![c] =
                                  [NoFaceCapture EXCEPT !.mounted = TRUE]]
            /\ UNCHANGED activity_logs
       ELSE /\ checkin' = [checkin EXCEPT ![c] =
                   [typed EXCEPT !.step = "result", !.lessonData = lessonData,
                                 !.checkResult = ResultAfterLog(
                                     Result(FALSE, "suspicious", "no_face_id"),
                                     logOk),
                                 !.locationData = [has |-> TRUE,
                                                   distance |-> distance,
                                                   fakeCheck |-> fakeCheck]]]
            /\ activity_logs' = InsertLog(activity_logs,
                   CheckinLog("checkin_failed", "no_face_id"), logOk)
            /\ UNCHANGED faceCapture
    /\ UNCHANGED <<authTables, media, timeVars, lessons, attendance, group, teacher, task>>

\* useEffect of FaceCapture: load the models, then start the camera
FaceInit(c, modelsLoaded, cameraStarted) ==
    /\ faceCapture[c].mounted
    /\ faceCapture[c].status = "loading"
    /\ faceCapture' = [faceCapture EXCEPT ![c] =
           IF modelsLoaded /\ cameraStarted
           THEN [@ EXCEPT !.status = "ready", !.stream = TRUE]
           ELSE [@ EXCEPT !.status = "error"]]
    /\ UNCHANGED <<authTables, media, activity_logs, timeVars, lessons, attendance, group,
                   teacher, checkin, task>>

\* processFrame: the detection loop while the capture is ready
ProcessFrame(c, detection) ==
    /\ faceCapture[c].mounted
    /\ faceCapture[c].status = "ready"
    /\ faceCapture[c].faceDetected # detection
    /\ faceCapture' = [faceCapture EXCEPT ![c].faceDetected = detection]
    /\ UNCHANGED <<authTables, media, activity_logs, timeVars, lessons, attendance, group,
                   teacher, checkin, task>>

\* The FaceCapture component after setStatus(status) and stopCamera(); a
\* component that was unmounted meanwhile takes no state update
StoppedCapture(fc, status) ==
    IF fc.mounted THEN [fc EXCEPT !.status = status, !.stream = FALSE] ELSE fc

\* handleFaceFailed up to its first await, with the lessonData and locationData
\* of the render the callback was created in: the result is shown at once
FaceFailedFrom(c, lessonData, locationData) ==
    IF lessonData.id = 0 \/ ~locationData.has
    THEN /\ faceCapture' = [faceCapture EXCEPT ![c] = StoppedCapture(@, "error")]
         /\ task' = [task EXCEPT ![c] = NoTask]
         /\ UNCHANGED checkin
    ELSE /\ checkin' = [checkin EXCEPT ![c] =
                StepTo(c, "result", Result(FALSE, "suspicious", "face_mismatch"))]
         /\ faceCapture' = [faceCapture EXCEPT ![c] = NoFaceCapture]
         /\ task' = [task EXCEPT ![c] =
                [NoTask EXCEPT !.pc = "ff_upsert", !.lesson = lessonData,
                               !.distance = locationData.distance,
                               !.fakeCheck = locationData.fakeCheck,
                               !.check_in_time = now]]

\* handleFaceVerified up to the first await of completeCheckin, with the
\* lessonData and locationData of the render the callback was created in
FaceVerifiedFrom(c, lessonData, locationData) ==
    IF lessonData.id = 0 \/ ~locationData.has
    THEN /\ faceCapture' = [faceCapture EXCEPT ![c] = StoppedCapture(@, "success")]
         /\ task' = [task EXCEPT ![c] = NoTask]
         /\ UNCHANGED checkin
    ELSE /\ checkin' = [checkin EXCEPT ![c].isChecking = TRUE]
         /\ faceCapture' = [faceCapture EXCEPT ![c] = StoppedCapture(@, "success")]
         /\ task' = [task EXCEPT ![c] =
                [NoTask EXCEPT !.pc = "cc_gate", !.lesson = lessonData,
                               !.distance = locationData.distance,
                               !.fakeCheck = locationData.fakeCheck]]

\* handleFaceFailed called in the render that is on the screen
HandleFaceFailed(c) ==
    FaceFailedFrom(c, checkin[c].lessonData, checkin[c].locationData)

\* handleFaceVerified called in the render that is on the screen
HandleFaceVerified(c) ==
    FaceVerifiedFrom(c, checkin[c].lessonData, checkin[c].locationData)

\* handleCapture: liveness samples, the descriptor, then the comparison
HandleCapture(c, samples, embedding) ==
    /\ faceCapture[c].mounted
    /\ faceCapture[c].status = "ready"
    /\ faceCapture[c].faceDetected
    /\ task[c].pc = "idle"
    /\ IF LivenessFailed(LivenessPass(samples)) \/ embedding.len = 0
       THEN UNCHANGED <<checkin, faceCapture, task>>
       ELSE IF /\ checkin[c].userFaceEmbedding.len # 0
               /\ ~CompareFaceEmbeddings(checkin[c].userFaceEmbedding, embedding).match
       THEN HandleFaceFailed(c)
       ELSE HandleFaceVerified(c)
    /\ UNCHANGED <<authTables, media, activity_logs, timeVars, lessons, attendance, group,
                   teacher>>

\* handleCapture, step by step. The click on the capture button: the callbacks
\* of the render on the screen go with the handler
CaptureStart(c) ==
    /\ faceCapture[c].mounted
    /\ faceCapture[c].status = "ready"
    /\ faceCapture[c].faceDetected
    /\ task[c].pc = "idle"
    /\ faceCapture' = [faceCapture EXCEPT ![c].status = "detecting"]
    /\ task' = [task EXCEPT ![c] =
           [NoTask EXCEPT !.pc = "hc_liveness", !.lesson = checkin[c].lessonData,
                          !.distance = checkin[c].locationData.distance,
                          !.fakeCheck = checkin[c].locationData.fakeCheck]]
    /\ UNCHANGED <<authTables, media, activity_logs, timeVars, lessons, attendance,
                   group, teacher, checkin>>

\* The loop over the liveness samples; without its video element (the component
\* was unmounted) no sample passes
CaptureLiveness(c, samples) ==
    /\ task[c].pc = "hc_liveness"
    /\ task' = [task EXCEPT ![c].pc = "hc_checked",
                            ![c].livenessPass =
                                IF faceCapture[c].mounted THEN LivenessPass(samples)
                                                          ELSE 0]
    /\ UNCHANGED <<authTables, media, activity_logs, timeVars, lessons, attendance,
                   group, teacher, checkin, faceCapture>>

\* After the loop: back to ready when too few samples passed, else the
\* descriptor is asked for
CaptureEmbedding(c) ==
    /\ task[c].pc = "hc_checked"
    /\ IF LivenessFailed(task[c].livenessPass)
       THEN /\ faceCapture' = [faceCapture EXCEPT ![c] =
                   IF @.mounted THEN [@ EXCEPT !.status = "ready"] ELSE @]
            /\ task' = [task EXCEPT ![c] = NoTask]
       ELSE /\ task' = [task EXCEPT ![c].pc = "hc_embedding"]
            /\ UNCHANGED faceCapture
    /\ UNCHANGED <<authTables, media, activity_logs, timeVars, lessons, attendance,
                   group, teacher, checkin>>

\* getFaceEmbedding resolved: null sends the capture back to ready; in verify
\* mode the comparison is loaded next
CaptureEmbedded(c, embedding) ==
    LET t == task[c]
        got == IF faceCapture[c].mounted THEN embedding ELSE NoEmbedding
    IN
    /\ t.pc = "hc_embedding"
    /\ IF got.len = 0
       THEN /\ faceCapture' = [faceCapture EXCEPT ![c] =
                   IF @.mounted THEN [@ EXCEPT !.status = "ready"] ELSE @]
            /\ task' = [task EXCEPT ![c] = NoTask]
            /\ UNCHANGED checkin
       ELSE IF checkin[c].userFaceEmbedding.len # 0
       THEN /\ task' = [task EXCEPT ![c].pc = "hc_import", ![c].embedding = got]
            /\ UNCHANGED <<checkin, faceCapture>>
       ELSE FaceVerifiedFrom(c, t.lesson,
                [has |-> TRUE, distance |-> t.distance, fakeCheck |-> t.fakeCheck])
    /\ UNCHANGED <<authTables, media, activity_logs, timeVars, lessons, attendance,
                   group, teacher>>

\* The comparison with the registered descriptor, then the page's callback
CaptureCompare(c) ==
    LET t == task[c]
        locationData == [has |-> TRUE, distance |-> t.distance,
                         fakeCheck |-> t.fakeCheck]
    IN
    /\ t.pc = "hc_import"
    /\ IF ~CompareFaceEmbeddings(checkin[c].userFaceEmbedding, t.embedding).match
       THEN FaceFailedFrom(c, t.lesson, locationData)
       ELSE FaceVerifiedFrom(c, t.lesson, locationData)
    /\ UNCHANGED <<authTables, media, activity_logs, timeVars, lessons, attendance,
                   group, teacher>>

\* useEffect of FaceCapture, step by step: init() is called
InitStart(c) ==
    /\ faceCapture[c].mounted
    /\ faceCapture[c].status = "loading"
    /\ media[c].init = "idle"
    /\ media' = [media EXCEPT ![c].init = "models"]
    /\ UNCHANGED <<authTables, activity_logs, timeVars, lessons, attendance, group,
                   teacher, checkin, faceCapture, task>>

\* loadFaceApiModels resolved: an error, or startCamera is called
InitModels(c, modelsLoaded) ==
    /\ media[c].init = "models"
    /\ IF modelsLoaded
       THEN /\ media' = [media EXCEPT ![c].init = "camera"]
            /\ UNCHANGED faceCapture
       ELSE /\ media' = [media EXCEPT ![c].init = "idle"]
            /\ faceCapture' = [faceCapture EXCEPT ![c] =
                   IF @.mounted THEN [@ EXCEPT !.status = "error"] ELSE @]
    /\ UNCHANGED <<authTables, activity_logs, timeVars, lessons, attendance, group,
                   teacher, checkin, task>>

\* The outcomes of startCamera: getUserMedia and play() resolved, getUserMedia
\* rejected, or play() rejected with the stream already kept in streamRef
CameraOutcomes == {"started", "denied", "no_play"}

\* startCamera resolved. The stream goes into streamRef, also when the
\* component was unmounted meanwhile (its cleanup ran before and nothing stops
\* the stream later) and also when streamRef holds an earlier stream
InitCamera(c, outcome) ==
    LET fc == faceCapture[c]
    IN
    /\ media[c].init = "camera"
    /\ IF outcome = "denied"
       THEN /\ media' = [media EXCEPT ![c].init = "idle"]
            /\ faceCapture' = [faceCapture EXCEPT ![c] =
                   IF fc.mounted THEN [fc EXCEPT !.status = "error"] ELSE fc]
       ELSE IF ~fc.mounted
       THEN /\ media' = [media EXCEPT ![c].init = "idle",
                                      ![c].leaked = @ + 1]
            /\ UNCHANGED faceCapture
       ELSE /\ media' = [media EXCEPT ![c].init = "idle",
                                      ![c].leaked = IF fc.stream THEN @ + 1 ELSE @]
            /\ faceCapture' = [faceCapture EXCEPT ![c] =
                   [fc EXCEPT !.stream = TRUE,
                              !.status = IF outcome = "started" THEN "ready"
                                                                ELSE "error"]]
    /\ UNCHANGED <<authTables, activity_logs, timeVars, lessons, attendance, group,
                   teacher, checkin, task>>

\* handleRetry of FaceCapture, the button of its error state: startCamera again
CameraRetry(c) ==
    /\ faceCapture[c].mounted
    /\ faceCapture[c].status = "error"
    /\ media[c].init = "idle"
    /\ faceCapture' = [faceCapture EXCEPT ![c].status = "loading"]
    /\ media' = [media EXCEPT ![c].init = "camera"]
    /\ UNCHANGED <<authTables, activity_logs, timeVars, lessons, attendance, group,
                   teacher, checkin, task>>

\* handleFaceFailed after getFingerprint(): the upsert and the activity log
FaceFailedUpsert(c, logOk) ==
    LET t == task[c]
    IN
    /\ t.pc = "ff_upsert"
    /\ attendance' = UpsertRow(attendance,
           AttendanceRow(t.lesson.id, Student, "suspicious", t.check_in_time,
                         t.distance, t.fakeCheck.isFake, "face_mismatch",
                         GetFingerprint(c)))
    /\ activity_logs' = InsertLog(activity_logs,
           CheckinLog("checkin_suspicious", "face_verification_failed"), logOk)
    /\ task' = [task EXCEPT ![c] = NoTask]
    /\ UNCHANGED <<authTables, media, timeVars, lessons, group, teacher, checkin,
                   faceCapture>>

\* completeCheckin after getFingerprint(): the location gate, then the read of
\* the existing record
CompleteGate(c, logOk) ==
    LET t == task[c]
    IN
    /\ t.pc = "cc_gate"
    /\ IF t.fakeCheck.isFake \/ ~IsWithinRadius(t.distance, RadiusMeters(t.lesson))
       THEN /\ checkin' = [checkin EXCEPT ![c] =
                   [@ EXCEPT !.step = "result", !.pin = "", !.isChecking = FALSE,
                             !.checkResult = ResultAfterLog(
                                 Result(FALSE, "rejected",
                                        IF t.fakeCheck.isFake THEN "fake_gps"
                                                              ELSE "too_far"),
                                 logOk)]]
            /\ activity_logs' = InsertLog(activity_logs,
                   CheckinLog("checkin_rejected",
                              IF t.fakeCheck.isFake THEN "fake_gps" ELSE "too_far"),
                   logOk)
            /\ faceCapture' = [faceCapture EXCEPT ![c] = NoFaceCapture]
            /\ task' = [task EXCEPT ![c] = NoTask]
       ELSE /\ task' = [task EXCEPT ![c].pc = "cc_write",
                                    ![c].existing =
                                        PairRows(attendance, t.lesson.id, Student) # {}]
            /\ UNCHANGED <<checkin, activity_logs, faceCapture>>
    /\ UNCHANGED <<authTables, media, timeVars, lessons, attendance, group, teacher>>

\* completeCheckin: update or insert, the activity log, then the result
CompleteWrite(c, logOk) ==
    LET t == task[c]
    IN
    /\ t.pc = "cc_write"
    /\ attendance' = WriteAttendance(attendance, t.existing,
           AttendanceRow(t.lesson.id, Student, "present", now, t.distance, FALSE,
                         NULL, GetFingerprint(c)))
    /\ activity_logs' = InsertLog(activity_logs, CheckinLog("checkin_success", ""),
                                  logOk)
    /\ checkin' = [checkin EXCEPT ![c] =
           [@ EXCEPT !.step = "result", !.pin = "", !.isChecking = FALSE,
                     !.checkResult = ResultAfterLog(
                         Result(TRUE, "present", "checked_in"), logOk)]]
    /\ faceCapture' = [faceCapture EXCEPT ![c] = NoFaceCapture]
    /\ task' = [task EXCEPT ![c] = NoTask]
    /\ UNCHANGED <<authTables, media, timeVars, lessons, group, teacher>>

\* handleRetry: the retry button of the result, the cancel button of the capture
HandleRetry(c) ==
    /\ \/ checkin[c].step = "face"
       \/ checkin[c].step = "result" /\ checkin[c].checkResult.shown
    /\ checkin' = [checkin EXCEPT ![c] =
           [@ EXCEPT !.step = "pin", !.pin = "", !.checkResult = NoResult,
                     !.lessonData = NoLesson, !.locationData = NoLocation]]
    /\ faceCapture' = [faceCapture EXCEPT ![c] = NoFaceCapture]
    /\ UNCHANGED <<authTables, media, activity_logs, timeVars, lessons, attendance, group,
                   teacher, task>>

\* startLesson up to the insert of the lesson row
StartLesson(pinCode, radiusMeters) ==
    LET id == Cardinality(lessons) + 1
    IN
    /\ teacher.pc = "idle"
    /\ teacher.activeLesson = 0
    /\ Cardinality(lessons) < MaxLessons
    /\ lessons' = lessons \cup
           {[id |-> id, pin_code |-> pinCode, pin_expires_at |-> now + PinValidity,
             radius_meters |-> radiusMeters, is_active |-> TRUE]}
    /\ teacher' = [teacher EXCEPT !.pc = "attendance", !.lesson = id]
    /\ UNCHANGED <<authTables, media, activity_logs, timeVars, attendance, group, checkin,
                   faceCapture, task>>

\* startLesson: one absent row for every student of the group, in one insert
StartLessonAttendance ==
    /\ teacher.pc = "attendance"
    /\ attendance' =
           IF group # {}
           THEN InsertRows(attendance, {AbsentRow(teacher.lesson, s) : s \in group})
           ELSE attendance
    /\ teacher' = [pc |-> "idle", lesson |-> 0, activeLesson |-> teacher.lesson]
    /\ UNCHANGED <<authTables, media, activity_logs, timeVars, lessons, group, checkin,
                   faceCapture, task>>

EndLesson ==
    /\ teacher.pc = "idle"
    /\ teacher.activeLesson # 0
    /\ lessons' = {IF l.id = teacher.activeLesson
                   THEN [l EXCEPT !.is_active = FALSE] ELSE l : l \in lessons}
    /\ teacher' = [teacher EXCEPT !.activeLesson = 0]
    /\ UNCHANGED <<authTables, media, activity_logs, timeVars, attendance, group, checkin,
                   faceCapture, task>>

----------------------------------------------------------------------------

vars == <<users, sessions, login_attempts, activity_logs, ip_rules, now, ticks,
          tokCtr, issued, pc, req, loc, resp,
          lessons, attendance, group, teacher, checkin, faceCapture, task, media>>

InitUsers ==
    [a \in Accounts |->
        IF a = "stu"
        THEN [login |-> <<"s">>, password_hash |-> PlainHash(<<"p">>),
              full_name |-> "Student", role |-> "student",
              device_fingerprint |-> NULL, is_active |-> TRUE,
              face_embedding |-> [len |-> DescriptorLength, x |-> 0]]
        ELSE [login |-> <<"a">>, password_hash |-> PlainHash(<<"q">>),
              full_name |-> "Admin", role |-> "admin",
              device_fingerprint |-> NULL, is_active |-> TRUE,
              face_embedding |-> NoEmbedding]]

InitAuthVars ==
    /\ sessions = {}
    /\ login_attempts = EmptyBag
    /\ activity_logs = EmptyBag
    /\ ip_rules = {}
    /\ now = 0
    /\ ticks = 0
    /\ tokCtr = 0
    /\ issued = {}
    /\ pc = [p \in Procs |-> "idle"]
    /\ req = [p \in Procs |-> NoReq]
    /\ loc = [p \in Procs |-> NoLoc]
    /\ resp = [p \in Procs |-> NoResp]

Registered == [len |-> DescriptorLength, x |-> 0]

NoCheckin == [step |-> "pin", pin |-> "", isChecking |-> FALSE,
              checkResult |-> NoResult, lessonData |-> NoLesson,
              locationData |-> NoLocation, userFaceEmbedding |-> NoEmbedding,
              fetched |-> FALSE]

InitCheckinVars ==
    /\ lessons = {}
    /\ attendance = {}
    /\ teacher = [pc |-> "idle", lesson |-> 0, activeLesson |-> 0]
    /\ checkin = [c \in Clients |-> NoCheckin]
    /\ faceCapture = [c \in Clients |-> NoFaceCapture]
    /\ task = [c \in Clients |-> NoTask]
    /\ media = [c \in Clients |-> NoMedia]

Init ==
    /\ users = InitUsers
    /\ group = {Student}
    /\ InitAuthVars
    /\ InitCheckinVars

InitCheckin ==
    /\ \E e \in {NoEmbedding, Registered} :
           users = [InitUsers EXCEPT ![Student].face_embedding = e]
    /\ group \in {{}, {Student}}
    /\ InitAuthVars
    /\ InitCheckinVars

(* Inputs *)

IPs == {"ip1", "ip2"}

Logins == {<<"s">>, <<"a">>, <<" ", "x", "<">>}

Passwords == {<<"p">>, <<"q">>}

Fingerprints == {"fp1", "fp2"}

\* <<x-xsrf-token header, body csrf_token>>
CsrfPairs == {<<"c1", "c1">>, <<"c1", "c2">>}

Salts == {"s1"}

\* no token, every token generated so far, and one that never was
TokenInputs == (0 .. tokCtr) \cup {MaxTokens + 2}

TickSteps == {RateLimitWindow, AccessWindow, AccessWindow + 1,
              RefreshWindow, RefreshWindow + 1}

\* Requests served one at a time by one slot
Next ==
    \/ \E login \in Logins, password \in Passwords,
          fingerprint \in Fingerprints, csrf \in CsrfPairs :
          Idle /\ RoomFor(MaxAttempts, MaxLogs) /\ RecvLogin("p1", "ip1", login, password, fingerprint,
                            csrf[2], csrf[1])
    \/ LoginCheck("p1")
    \/ \E salt \in Salts : LoginVerify("p1", salt)
    \/ LoginDelete("p1")
    \/ \E ok \in BOOLEAN : LoginInsert("p1", ok)
    \/ \E action \in {"logout", "refresh", "validate"}, token \in TokenInputs :
          Idle /\ RoomFor(MaxAttempts + 1, MaxLogs + 1)
               /\ RecvToken("p1", action, "ip1", token)
    \/ Logout("p1")
    \/ RefreshSelect("p1")
    \/ \E ok \in BOOLEAN : RefreshUpdate("p1", ok)
    \/ Validate("p1")
    \/ \E a \in Accounts : Idle /\ ResetDeviceBinding(a)
    \/ \E d \in TickSteps : Idle /\ Tick(d)

Spec == Init /\ [][Next]_vars

----------------------------------------------------------------------------
(* Failed logins piling up: the rate limit *)

MaxRateAttempts == 6

RateLogins == {<<"s">>, <<"x">>}

RateTickSteps == {RateLimitWindow - 1, RateLimitWindow}

NextRate ==
    \/ \E ip \in IPs, login \in RateLogins, password \in Passwords :
          Idle /\ RoomFor(MaxRateAttempts, MaxRateAttempts)
               /\ RecvLogin("p1", ip, login, password, "fp1", "c1", "c1")
    \/ LoginCheck("p1")
    \/ \E salt \in Salts : LoginVerify("p1", salt)
    \/ LoginDelete("p1")
    \/ LoginInsert("p1", TRUE)
    \/ \E d \in RateTickSteps : Idle /\ Tick(d)

SpecRate == Init /\ [][NextRate]_vars

----------------------------------------------------------------------------
(* Two login requests served at the same time *)

NextLoginRace ==
    \/ \E p \in Procs, login \in {<<"s">>, <<"a">>}, password \in Passwords :
          RoomFor(MaxAttempts + 2, MaxLogs + 2)
          /\ RecvLogin(p, "ip1", login, password, "fp1", "c1", "c1")
    \/ \E p \in Procs : LoginCheck(p)
    \/ \E p \in Procs, salt \in Salts : LoginVerify(p, salt)
    \/ \E p \in Procs : LoginDelete(p)
    \/ \E p \in Procs : LoginInsert(p, TRUE)

SpecLoginRace == Init /\ [][NextLoginRace]_vars

----------------------------------------------------------------------------
(* Refresh requests served at the same time, the logins one at a time *)

RefreshTickSteps == {AccessWindow + 1, RefreshWindow + 1}

NoLoginInFlight == \A q \in Procs : pc[q] \in {"idle", "refresh", "refresh_update"}

NextRefreshRace ==
    \/ \E login \in {<<"s">>, <<"a">>}, password \in Passwords :
          Idle /\ RoomFor(MaxAttempts + 1, MaxLogs + 1)
               /\ RecvLogin("p1", "ip1", login, password, "fp1", "c1", "c1")
    \/ LoginCheck("p1")
    \/ \E salt \in Salts : LoginVerify("p1", salt)
    \/ LoginDelete("p1")
    \/ LoginInsert("p1", TRUE)
    \/ \E p \in Procs, token \in TokenInputs :
          NoLoginInFlight /\ RecvToken(p, "refresh", "ip1", token)
    \/ \E p \in Procs : RefreshSelect(p)
    \/ \E p \in Procs, ok \in BOOLEAN : RefreshUpdate(p, ok)
    \/ \E d \in RefreshTickSteps : Tick(d)

SpecRefreshRace == Init /\ [][NextRefreshRace]_vars

----------------------------------------------------------------------------
(* Legacy hashes: logins, and the administrator setting passwords *)

NextUpgrade ==
    \/ \E login \in {<<"s">>, <<"a">>}, password \in Passwords,
          fingerprint \in Fingerprints :
          Idle /\ RoomFor(MaxAttempts + 1, MaxLogs + 1)
               /\ RecvLogin("p1", "ip1", login, password, fingerprint, "c1", "c1")
    \/ LoginCheck("p1")
    \/ \E salt \in Salts : LoginVerify("p1", salt)
    \/ LoginDelete("p1")
    \/ \E ok \in BOOLEAN : LoginInsert("p1", ok)
    \/ \E a \in Accounts, password \in Passwords : Idle /\ SetPassword(a, password)

SpecUpgrade == Init /\ [][NextUpgrade]_vars

----------------------------------------------------------------------------
(* Blacklist rules: the administrator blocks and unblocks caller addresses *)

IpLogins == {<<"a">>, <<"s">>}

IpExpiries == {0, RateLimitWindow}

IpTickSteps == {RateLimitWindow}

\* <<x-xsrf-token header, body csrf_token>>, either of them possibly missing
IpCsrfPairs == CsrfPairs \cup {<<NULL, "c1">>, <<"c1", NULL>>, <<NULL, NULL>>}

NextIp ==
    \/ \E ip \in IPs, login \in IpLogins, csrf \in IpCsrfPairs :
          Idle /\ RoomFor(MaxAttempts, MaxLogs + 1)
               /\ RecvLogin("p1", ip, login, <<"q">>, "fp1", csrf[2], csrf[1])
    \/ LoginCheck("p1")
    \/ \E salt \in Salts : LoginVerify("p1", salt)
    \/ LoginDelete("p1")
    \/ LoginInsert("p1", TRUE)
    \/ \E ip \in IPs, action \in {"logout", "refresh", "validate"},
          token \in 1 .. tokCtr :
          Idle /\ RoomFor(MaxAttempts + 1, MaxLogs + 1) /\ RecvToken("p1", action, ip, token)
    \/ Logout("p1")
    \/ RefreshSelect("p1")
    \/ RefreshUpdate("p1", TRUE)
    \/ Validate("p1")
    \/ \E ip \in IPs, action \in {"block-ip", "unblock-ip"}, token \in 0 .. tokCtr,
          targetIP \in IPs, expiresIn \in IpExpiries :
          Idle /\ RoomFor(MaxAttempts + 1, MaxLogs + 1)
               /\ RecvIpRule("p1", action, ip, token, targetIP, expiresIn)
    \/ \E ok \in BOOLEAN : IpRule("p1", ok)
    \/ \E ip \in IPs, action \in {"list-blocked-ips", "login-attempts",
                                  "hash-password", "unknown"},
          token \in 0 .. tokCtr, password \in {<<>>, <<"q">>} :
          Idle /\ RoomFor(MaxAttempts + 1, MaxLogs + 1)
               /\ (action = "hash-password" => token = 0)
               /\ (action # "hash-password" => password = <<>>)
               /\ RecvOther("p1", action, ip, token, password)
    \/ Other("p1")
    \/ \E d \in IpTickSteps : Idle /\ Tick(d)

SpecIp == Init /\ [][NextIp]_vars

(* Logins of the student from several devices served at the same time *)

NextBindRace ==
    \/ \E p \in Procs, password \in Passwords, fingerprint \in Fingerprints :
          RoomFor(MaxAttempts + 2, MaxLogs + 2)
          /\ RecvLogin(p, "ip1", <<"s">>, password, fingerprint, "c1", "c1")
    \/ \E p \in Procs : LoginCheck(p)
    \/ \E p \in Procs, salt \in Salts : LoginVerify(p, salt)
    \/ \E p \in Procs : LoginDelete(p)
    \/ \E p \in Procs : LoginInsert(p, TRUE)

SpecBindRace == Init /\ [][NextBindRace]_vars

(* A refresh served while a login or a logout of the account is served *)

NextSessionRace ==
    \/ \E password \in Passwords :
          RoomFor(MaxAttempts + 1, MaxLogs + 1)
          /\ RecvLogin("p1", "ip1", <<"s">>, password, "fp1", "c1", "c1")
    \/ LoginCheck("p1")
    \/ \E salt \in Salts : LoginVerify("p1", salt)
    \/ LoginDelete("p1")
    \/ LoginInsert("p1", TRUE)
    \/ \E token \in TokenInputs :
          RoomFor(MaxAttempts + 1, MaxLogs + 1) /\ RecvToken("p1", "logout", "ip1", token)
    \/ Logout("p1")
    \/ \E token \in TokenInputs : RecvToken("p2", "refresh", "ip1", token)
    \/ RefreshSelect("p2")
    \/ \E ok \in BOOLEAN : RefreshUpdate("p2", ok)

SpecSessionRace == Init /\ [][NextSessionRace]_vars

(* Sessions refreshed early and late in their refresh window *)

ExpiryTickSteps == {AccessWindow, RefreshWindow - AccessWindow - 1,
                    RefreshWindow - AccessWindow, RefreshWindow - 1}

NextExpiry ==
    \/ \E login \in IpLogins, password \in Passwords :
          Idle /\ RoomFor(MaxAttempts + 1, MaxLogs + 1)
               /\ RecvLogin("p1", "ip1", login, password, "fp1", "c1", "c1")
    \/ LoginCheck("p1")
    \/ \E salt \in Salts : LoginVerify("p1", salt)
    \/ LoginDelete("p1")
    \/ LoginInsert("p1", TRUE)
    \/ \E token \in TokenInputs : Idle /\ RecvToken("p1", "refresh", "ip1", token)
    \/ RefreshSelect("p1")
    \/ \E ok \in BOOLEAN : RefreshUpdate("p1", ok)
    \/ \E d \in ExpiryTickSteps : Idle /\ Tick(d)

SpecExpiry == Init /\ [][NextExpiry]_vars

(* The administrator's rules called with every kind of token *)

AdminTickSteps == {AccessWindow, AccessWindow + 1}

\* The second account is a student or a teacher
InitAdmin ==
    /\ \E role \in {"student", "teacher"} : users = [InitUsers EXCEPT !["stu"].role = role]
    /\ group = {Student}
    /\ InitAuthVars
    /\ InitCheckinVars

NextAdmin ==
    \/ \E login \in IpLogins, password \in Passwords :
          Idle /\ RoomFor(MaxAttempts + 1, MaxLogs + 1)
               /\ RecvLogin("p1", "ip1", login, password, "fp1", "c1", "c1")
    \/ LoginCheck("p1")
    \/ \E salt \in Salts : LoginVerify("p1", salt)
    \/ LoginDelete("p1")
    \/ LoginInsert("p1", TRUE)
    \/ \E token \in 1 .. tokCtr :
          Idle /\ RoomFor(MaxAttempts + 1, MaxLogs + 1)
               /\ RecvToken("p1", "logout", "ip1", token)
    \/ Logout("p1")
    \/ \E ip \in IPs, action \in {"block-ip", "unblock-ip"}, token \in TokenInputs,
          targetIP \in IPs, expiresIn \in IpExpiries :
          Idle /\ RoomFor(MaxAttempts + 1, MaxLogs + 1)
               /\ RecvIpRule("p1", action, ip, token, targetIP, expiresIn)
    \/ \E ok \in BOOLEAN : IpRule("p1", ok)
    \/ \E d \in AdminTickSteps : Idle /\ Tick(d)

SpecAdmin == InitAdmin /\ [][NextAdmin]_vars

(* The check-in page of one client, its handlers run to completion *)

Pins == {"111111", "222222"}

Radii == {100, 120}

Accuracies == {-1, 0, 5, 150, 10010}

Distances == {50, 120, 200}

Samples == [1..LivenessSamples -> BOOLEAN]

Captures == {NoEmbedding,
             [len |-> DescriptorLength, x |-> 3000],
             [len |-> DescriptorLength, x |-> 5000],
             [len |-> DescriptorLength, x |-> 8000]}

CheckinTickSteps == {PinValidity, PinValidity + 1}

NextCheckin ==
    \/ FetchFaceEmbedding("c1")
    \/ \E pinCode \in Pins, mobile \in BOOLEAN, emulator \in BOOLEAN,
          accuracy \in Accuracies, locOk \in BOOLEAN, distance \in Distances :
          Quiet /\ LogRoom /\
          HandlePinSubmit("c1", pinCode, mobile, emulator, accuracy, locOk, distance,
                          TRUE)
    \/ \E modelsLoaded \in BOOLEAN, cameraStarted \in BOOLEAN :
          FaceInit("c1", modelsLoaded, cameraStarted)
    \/ \E detection \in BOOLEAN : ProcessFrame("c1", detection)
    \/ \E samples \in Samples, embedding \in Captures :
          Quiet /\ HandleCapture("c1", samples, embedding)
    \/ FaceFailedUpsert("c1", TRUE)
    \/ CompleteGate("c1", TRUE)
    \/ CompleteWrite("c1", TRUE)
    \/ Quiet /\ HandleRetry("c1")
    \/ \E radiusMeters \in Radii : Quiet /\ StartLesson("111111", radiusMeters)
    \/ StartLessonAttendance
    \/ Quiet /\ EndLesson
    \/ \E d \in CheckinTickSteps : Quiet /\ Tick(d)

SpecCheckin == InitCheckin /\ [][NextCheckin]_vars

(* Two clients of the student and the teacher, every step interleaved *)

RaceCaptures == {[len |-> DescriptorLength, x |-> 3000],
                 [len |-> DescriptorLength, x |-> 8000]}

NextCheckinRace ==
    \/ \E c \in Clients : FetchFaceEmbedding(c)
    \/ \E c \in Clients :
          LogRoom /\ HandlePinSubmit(c, "111111", TRUE, FALSE, 150, TRUE, 50, TRUE)
    \/ \E c \in Clients : FaceInit(c, TRUE, TRUE)
    \/ \E c \in Clients : ProcessFrame(c, TRUE)
    \/ \E c \in Clients, embedding \in RaceCaptures :
          HandleCapture(c, [i \in 1..LivenessSamples |-> TRUE], embedding)
    \/ \E c \in Clients : FaceFailedUpsert(c, TRUE)
    \/ \E c \in Clients : CompleteGate(c, TRUE)
    \/ \E c \in Clients : CompleteWrite(c, TRUE)
    \/ \E c \in Clients : HandleRetry(c)
    \/ StartLesson("111111", 120)
    \/ StartLessonAttendance

SpecCheckinRace == InitCheckin /\ [][NextCheckinRace]_vars

(* One client, every write of the activity log free to fail *)

LogAccuracies == {0, 150}

LogDistances == {50, 200}

LogCaptures == {[len |-> DescriptorLength, x |-> 3000],
                [len |-> DescriptorLength, x |-> 8000]}

NextCheckinLog ==
    \/ FetchFaceEmbedding("c1")
    \/ \E pinCode \in Pins, accuracy \in LogAccuracies, distance \in LogDistances,
          logOk \in BOOLEAN :
          Quiet /\ LogRoom /\
          HandlePinSubmit("c1", pinCode, TRUE, FALSE, accuracy, TRUE, distance, logOk)
    \/ FaceInit("c1", TRUE, TRUE)
    \/ ProcessFrame("c1", TRUE)
    \/ \E embedding \in LogCaptures :
          Quiet /\ HandleCapture("c1", [i \in 1..LivenessSamples |-> TRUE], embedding)
    \/ \E logOk \in BOOLEAN : FaceFailedUpsert("c1", logOk)
    \/ \E logOk \in BOOLEAN : CompleteGate("c1", logOk)
    \/ \E logOk \in BOOLEAN : CompleteWrite("c1", logOk)
    \/ Quiet /\ HandleRetry("c1")
    \/ Quiet /\ StartLesson("111111", DefaultRadius)
    \/ StartLessonAttendance
    \/ Quiet /\ EndLesson

SpecCheckinLog == InitCheckin /\ [][NextCheckinLog]_vars

(* One client, the face capture step by step, the cancel button at any time *)

MaxLeaked == 2

CaptureDistances == {50, 200}

NextCapture ==
    \/ FetchFaceEmbedding("c1")
    \/ \E distance \in CaptureDistances :
          LogRoom /\ media["c1"].init = "idle" /\ media["c1"].leaked < MaxLeaked /\
          HandlePinSubmit("c1", "111111", TRUE, FALSE, 150, TRUE, distance, TRUE)
    \/ InitStart("c1")
    \/ \E modelsLoaded \in BOOLEAN : InitModels("c1", modelsLoaded)
    \/ \E outcome \in CameraOutcomes : InitCamera("c1", outcome)
    \/ media["c1"].leaked < MaxLeaked /\ CameraRetry("c1")
    \/ \E detection \in BOOLEAN : ProcessFrame("c1", detection)
    \/ CaptureStart("c1")
    \/ \E samples \in Samples : CaptureLiveness("c1", samples)
    \/ CaptureEmbedding("c1")
    \/ \E embedding \in Captures : CaptureEmbedded("c1", embedding)
    \/ CaptureCompare("c1")
    \/ FaceFailedUpsert("c1", TRUE)
    \/ CompleteGate("c1", TRUE)
    \/ CompleteWrite("c1", TRUE)
    \/ HandleRetry("c1")
    \/ StartLesson("111111", DefaultRadius)
    \/ StartLessonAttendance

SpecCapture == InitCheckin /\ [][NextCapture]_vars

(* The face capture with a working camera and a face in front of it: every
   handler in flight goes on, and the student presses the capture button
   whenever it is enabled; the cancel button is pressed or not *)

CaptureProgress ==
    \/ InitStart("c1")
    \/ InitModels("c1", TRUE)
    \/ InitCamera("c1", "started")
    \/ ProcessFrame("c1", TRUE)
    \/ CaptureStart("c1")
    \/ \E samples \in Samples : CaptureLiveness("c1", samples)
    \/ CaptureEmbedding("c1")
    \/ \E embedding \in RaceCaptures : CaptureEmbedded("c1", embedding)
    \/ CaptureCompare("c1")
    \/ FaceFailedUpsert("c1", TRUE)
    \/ CompleteGate("c1", TRUE)
    \/ CompleteWrite("c1", TRUE)

NextCaptureFair ==
    \/ FetchFaceEmbedding("c1")
    \/ \E distance \in CaptureDistances :
          LogRoom /\ Quiet /\ media["c1"].init = "idle" /\
          HandlePinSubmit("c1", "111111", TRUE, FALSE, 150, TRUE, distance, TRUE)
    \/ CaptureProgress
    \/ Quiet /\ media["c1"].init = "idle" /\ HandleRetry("c1")
    \/ \E radiusMeters \in Radii : StartLesson("111111", radiusMeters)
    \/ StartLessonAttendance

SpecCaptureFair ==
    InitCheckin /\ [][NextCaptureFair]_vars /\ WF_vars(CaptureProgress)

----------------------------------------------------------------------------
(* Claims *)

\* C1: with requests served one at a time, the sessions table holds at most
\* one row per account; after a successful login the only row of the account
\* is the one just issued, and no access or refresh token of an earlier login
\* of the account is accepted by validate or by refresh.
C1_SingleSession ==
    /\ \A a \in Accounts : Cardinality(UserSessions(sessions, a)) <= 1
    /\ \A i, j \in issued :
          (i.uid = j.uid /\ i.token < j.token) =>
             /\ ValidSession(i.token) = {}
             /\ RefreshableSession(i.refresh_token) = {}
    /\ \A p \in Procs :
          (pc[p] = "idle" /\ req[p].action = "login" /\ resp[p].status = 200) =>
             {<<s.token, s.refresh_token>> : s \in UserSessions(sessions, resp[p].uid)}
                = {<<resp[p].token, resp[p].refresh_token>>}

\* C1 witness: an account has logged in twice, the second login just answered.
C1_Witness ==
    /\ pc["p1"] = "idle" /\ req["p1"].action = "login" /\ resp["p1"].status = 200
    /\ \E i \in issued : i.uid = resp["p1"].uid /\ i.token < resp["p1"].token

FailedRecently(login, ip) ==
    LET Hit(a) == /\ (a.login = login \/ a.ip_address = ip)
                  /\ ~a.success
                  /\ now - a.created_at < 15
    IN  CountRows(login_attempts, {a \in BagToSet(login_attempts) : Hit(a)})

\* C2: a login request that reaches the rate-limit check while at least 5
\* failed attempts of the last 15 minutes match its login or its IP is answered
\* 429 in that step: the account is not looked up, no session is issued and no
\* account field changes, whatever the credentials.
C2_RateLimited ==
    [][\A p \in Procs :
         LET r == req[p]
         IN  ( /\ pc[p] = "login_check"
               /\ pc'[p] # "login_check"
               /\ ~IsIpBlocked(r.ip)
               /\ ValidateCSRFToken(r.csrf_header, r.csrf_body)
               /\ SanitizeInput(r.login) # <<>>
               /\ SanitizeInput(r.password) # <<>>
               /\ FailedRecently(SanitizeInput(r.login), r.ip) >= 5 )
             => /\ pc'[p] = "idle"
                /\ resp'[p].status = 429
                /\ resp'[p].token = 0
                /\ sessions' = sessions
                /\ users' = users
                /\ issued' = issued
                /\ login_attempts' = login_attempts]_vars

\* C2 witness: a request with the right login, password and fingerprint of the
\* student was answered 429.
C2_Witness ==
    /\ pc["p1"] = "idle"
    /\ resp["p1"].status = 429
    /\ req["p1"].login = <<"s">>
    /\ VerifyPassword(req["p1"].password, users["stu"].password_hash)
    /\ users["stu"].device_fingerprint \in {NULL, req["p1"].fingerprint}

DeviceBound(a) ==
    users[a].role = "student" /\ users[a].device_fingerprint # NULL

\* C3: a fingerprint bound to a student account changes only by the
\* administrator's reset (to "none"), and while it is bound a login request of
\* that account with another fingerprint ends without a session: 403 once the
\* password has been accepted.
C3_DeviceBinding ==
    [][ /\ \A a \in Accounts :
             DeviceBound(a) =>
                \/ users'[a].device_fingerprint = users[a].device_fingerprint
                \/ users'[a].device_fingerprint = NULL /\ Idle /\ pc' = pc
        /\ \A p \in Procs :
             LET a == FindUser(SanitizeInput(req[p].login))
                 other == /\ a # NoUser
                          /\ DeviceBound(a)
                          /\ users[a].device_fingerprint # req[p].fingerprint
             IN  ( pc[p] \in {"login_check", "login_verify"}
                   /\ pc'[p] # pc[p] /\ a # NoUser /\ other )
                 => \/ /\ pc[p] = "login_check" /\ pc'[p] = "login_verify"
                       /\ sessions' = sessions /\ issued' = issued
                    \/ /\ pc'[p] = "idle"
                       /\ resp'[p].status \in {400, 401, 403, 429}
                       /\ sessions' = sessions /\ issued' = issued
                       /\ ( ( pc[p] = "login_verify"
                              /\ VerifyPassword(SanitizeInput(req[p].password),
                                                users[a].password_hash) )
                            => resp'[p].status = 403 ) ]_vars

\* C3 witness: a login of the bound student from another device was refused.
C3_Witness ==
    /\ pc["p1"] = "idle"
    /\ resp["p1"].reason = "device_mismatch"
    /\ DeviceBound("stu")
    /\ users["stu"].device_fingerprint # req["p1"].fingerprint

\* C4: an attempt whose location is flagged as fake GPS or lies outside the
\* lesson radius, and an attempt whose PIN lookup fails, leaves the attendance
\* table as it was: no step of such an attempt inserts or updates a record.
C4_NoWriteOnRejection ==
    [][\A c \in Clients :
          /\ ( /\ task[c].pc # "idle"
               /\ task'[c] # task[c]
               /\ \/ task[c].fakeCheck.isFake
                  \/ task[c].distance > RadiusMeters(task[c].lesson) )
             => attendance' = attendance
          /\ ( /\ checkin[c].step = "pin"
               /\ checkin'[c].step = "result"
               /\ checkin'[c].lessonData.id = 0 )
             => attendance' = attendance]_vars

\* C5: when the face matched, the location is not fake and the distance is at
\* most the radius, the attempt goes through the location gate to the write,
\* ends in Result = present, and leaves exactly one record of (lesson, student)
\* with status present and the distance, fingerprint and time of the attempt.
C5_PresentRecorded ==
    [][\A c \in Clients :
          /\ ( /\ faceCapture[c].status = "ready"
               /\ faceCapture'[c].status = "success" )
             => /\ task'[c].pc = "cc_gate"
                /\ task'[c].lesson = checkin[c].lessonData
                /\ task'[c].distance = checkin[c].locationData.distance
                /\ task'[c].fakeCheck = checkin[c].locationData.fakeCheck
          /\ ( /\ task[c].pc = "cc_gate"
               /\ task'[c] # task[c]
               /\ ~task[c].fakeCheck.isFake
               /\ task[c].distance <= RadiusMeters(task[c].lesson) )
             => /\ task'[c].pc = "cc_write"
                /\ attendance' = attendance
          /\ ( /\ task[c].pc = "cc_write"
               /\ task'[c] # task[c] )
             => /\ checkin'[c].step = "result"
                /\ checkin'[c].checkResult.status = "present"
                /\ checkin'[c].checkResult.success
                /\ Cardinality(PairRows(attendance', task[c].lesson.id, Student)) = 1
                /\ \A r \in PairRows(attendance', task[c].lesson.id, Student) :
                      /\ r.status = "present"
                      /\ r.distance_meters = task[c].distance
                      /\ r.fingerprint = GetFingerprint(c)
                      /\ r.check_in_time = now]_vars

C5_Witness ==
    /\ checkin["c1"].step = "result"
    /\ checkin["c1"].checkResult.status = "present"
    /\ \E r \in PairRows(attendance, checkin["c1"].lessonData.id, Student) :
          /\ r.status = "present"
          /\ r.distance_meters = checkin["c1"].locationData.distance
          /\ r.distance_meters <= RadiusMeters(checkin["c1"].lessonData)

C7_GpsBeforeFace ==
    \A c \in Clients :
        checkin[c].step = "face" =>
            /\ checkin[c].locationData.has
            /\ ~checkin[c].locationData.fakeCheck.isFake
            /\ checkin[c].locationData.distance <= RadiusMeters(checkin[c].lessonData)

\* C8: an attempt that passed the PIN lookup and whose fake-GPS check reported
\* isFake ends in Result = rejected, whatever its distance to the lesson.
C8_FakeRejected ==
    \A c \in Clients :
        ( /\ checkin[c].step = "result"
          /\ task[c].pc = "idle"
          /\ checkin[c].lessonData.id # 0
          /\ checkin[c].locationData.has
          /\ checkin[c].locationData.fakeCheck.isFake )
        => checkin[c].checkResult.status = "rejected"

\* C9: check-ins of one (lesson, student) pair that interleave with each other
\* and with the absent rows of the lesson start never leave two records of the
\* pair and never lose a write: a check-in that reports present leaves the
\* record of the pair at status present.
C9_AtomicUpsert ==
    [][\A c \in Clients :
          /\ \A l \in lessons :
                Cardinality(PairRows(attendance', l.id, Student)) <= 1
          /\ ( /\ task[c].pc = "cc_write"
               /\ task'[c].pc = "idle"
               /\ checkin'[c].checkResult.status = "present" )
             => \E r \in PairRows(attendance', task[c].lesson.id, Student) :
                   r.status = "present"]_vars

\* C10: once two interleaved logins of one account have both been answered,
\* at most one session row of the account remains.
C10_OneSessionAfterRace ==
    Idle => \A a \in Accounts : Cardinality(UserSessions(sessions, a)) <= 1

\* The caller address has a blacklist rule without expiry or expiring later
Blacklisted(ip) ==
    \E rule \in ip_rules :
        /\ rule.ip_address = ip
        /\ rule.rule_type = "blacklist"
        /\ (rule.expires_at = 0 \/ now < rule.expires_at)

CsrfBad(r) ==
    r.csrf_body = NULL \/ r.csrf_header = NULL \/ r.csrf_body # r.csrf_header

\* The first step of the login request of slot p, its tokens missing or unequal
CsrfBadStep(p) ==
    /\ pc[p] = "login_check"
    /\ pc'[p] # pc[p]
    /\ CsrfBad(req[p])

\* C12 as stated: a login request whose body csrf_token and x-xsrf-token
\* header are missing or not equal is answered 403 before any read or write
\* of the data store is made for it.
C12_NoDataAccess ==
    [][\A p \in Procs :
          CsrfBadStep(p) => resp'[p].status = 403 /\ resp'[p].accessed = {}]_vars

\* C12, amended: a login request whose body csrf_token and x-xsrf-token header
\* are missing or not equal is answered 403 in its first step; the only table
\* read for it is ip_rules (the blocked address lookup), and no table is
\* written.
C12_CsrfRejected ==
    [][\A p \in Procs :
          CsrfBadStep(p)
          => /\ pc'[p] = "idle"
             /\ resp'[p].status = 403
             /\ ~resp'[p].success
             /\ resp'[p].accessed = {"ip_rules"}
             /\ UNCHANGED <<users, sessions, login_attempts, activity_logs,
                            ip_rules, lessons, attendance>>]_vars

C12_Witness ==
    \E p \in Procs :
        /\ pc[p] = "idle"
        /\ req[p].action = "login"
        /\ CsrfBad(req[p])
        /\ ~Blacklisted(req[p].ip)
        /\ resp[p].status = 403
        /\ resp[p].reason = "csrf"

\* The session rows holding access token t whose access expiry is in the future
FutureSession(t) == {s \in sessions : s.token = t /\ s.expires_at > now}

\* A validate request of slot p is answered, its caller address not blocked
ValidateStep(p) ==
    /\ pc[p] = "validate"
    /\ pc'[p] = "idle"
    /\ ~Blacklisted(req[p].ip)

\* C13: validate(t) reports valid if and only if a session row with access
\* token t exists whose access expiry is in the future, and it then returns
\* the id, login, full name, role and active flag of the account owning the row.
C13_ValidateIffFuture ==
    [][\A p \in Procs :
          ValidateStep(p)
          => /\ resp'[p].success <=> (req[p].token # 0 /\ FutureSession(req[p].token) # {})
             /\ resp'[p].success =>
                   \E s \in FutureSession(req[p].token) :
                       resp'[p].user =
                           [id |-> s.user_id, login |-> users[s.user_id].login,
                            full_name |-> users[s.user_id].full_name,
                            role |-> users[s.user_id].role,
                            is_active |-> users[s.user_id].is_active]]_vars

\* The session rows that the refresh token rt can still refresh
Refreshable(rt) ==
    {s \in sessions : s.refresh_token = rt /\ ~(s.refresh_expires_at < now)}

\* C14: a refresh request carrying the refresh token of a session whose refresh
\* expiry has not passed goes on to the update, and the update replaces the
\* access token and access expiry of that same row and nothing else: refresh
\* token, owner and the number of rows stay, the previous access token stops
\* validating and the returned one validates.
C14_RefreshSameRow ==
    [][\A p \in Procs :
          /\ ( /\ pc[p] = "refresh" /\ pc'[p] # pc[p]
               /\ ~Blacklisted(req[p].ip)
               /\ req[p].token # 0
               /\ Refreshable(req[p].token) # {} )
             => pc'[p] = "refresh_update"
          /\ ( pc[p] = "refresh_update" /\ resp'[p].success )
             => \E s \in Refreshable(req[p].token) :
                   /\ resp'[p].token \notin {0, s.token}
                   /\ sessions' = (sessions \ {s}) \cup
                         {[s EXCEPT !.token = resp'[p].token,
                                    !.expires_at = now + AccessWindow]}
                   /\ Cardinality(sessions') = Cardinality(sessions)
                   /\ {x \in sessions' : x.token = s.token} = {}
                   /\ \E x \in sessions' :
                         /\ x.token = resp'[p].token
                         /\ x.expires_at >= now'
                         /\ x.refresh_token = s.refresh_token
                         /\ x.user_id = s.user_id
                         /\ x.refresh_expires_at = s.refresh_expires_at
                   /\ UNCHANGED <<users, login_attempts, ip_rules>>]_vars

C14_Witness ==
    /\ pc["p1"] = "idle"
    /\ req["p1"].action = "refresh"
    /\ resp["p1"].success
    /\ \E s \in sessions :
          /\ s.refresh_token = req["p1"].token
          /\ s.token = resp["p1"].token
          /\ s.expires_at = now + AccessWindow
          /\ now > 0

\* The session rows holding refresh token rt
RowsOf(S, rt) == {s \in S : s.refresh_token = rt}

\* C15: refresh calls with the same valid refresh token may interleave or be
\* repeated: whenever such a call is between its select and its update there
\* is exactly one session row with that refresh token, owned by the account
\* the call selected, and the update leaves exactly one such row, with the same
\* owner and refresh token, whose access token is the one this call returns.
C15_RefreshRaceOneRow ==
    [][\A p \in Procs :
          pc[p] = "refresh_update"
          => /\ Cardinality(RowsOf(sessions, loc[p].refresh_token)) = 1
             /\ \A s \in RowsOf(sessions, loc[p].refresh_token) :
                   s.user_id = loc[p].uid
             /\ Cardinality(sessions') = Cardinality(sessions)
             /\ Cardinality(RowsOf(sessions', loc[p].refresh_token)) = 1
             /\ \A s \in RowsOf(sessions', loc[p].refresh_token) :
                   /\ s.user_id = loc[p].uid
                   /\ (pc'[p] = "idle" /\ resp'[p].success)
                      => s.token = resp'[p].token
                   /\ \/ \E x \in RowsOf(sessions, loc[p].refresh_token) :
                            s.token = x.token
                      \/ \E q \in Procs :
                            /\ pc[q] = "refresh_update"
                            /\ loc[q].refresh_token = loc[p].refresh_token
                            /\ pc'[q] = "idle" /\ resp'[q].success
                            /\ s.token = resp'[q].token]_vars

\* Both calls carried the same refresh token and succeeded; the row holds the
\* access token returned by the second, not the one returned to the first
C15_Witness ==
    /\ Idle
    /\ \A p \in Procs : req[p].action = "refresh" /\ resp[p].success
    /\ req["p1"].token = req["p2"].token
    /\ resp["p1"].token > resp["p2"].token
    /\ \E s \in sessions :
          /\ s.refresh_token = req["p1"].token
          /\ s.token = resp["p2"].token
          /\ Cardinality(RowsOf(sessions, s.refresh_token)) = 1

\* C16: when a logout request with access token t completes, the session that
\* held t is gone: no row holds t (validate(t) reports invalid) and no row
\* holds the refresh token of that session (refresh with it is rejected),
\* while the session rows of all other accounts are as they were.
C16_LogoutRemovesSession ==
    [][\A p \in Procs :
          ( /\ pc[p] = "logout" /\ pc'[p] = "idle"
            /\ ~Blacklisted(req[p].ip)
            /\ req[p].token # 0 )
          => \A s \in {x \in sessions : x.token = req[p].token} :
                /\ {x \in sessions' : x.token = s.token} = {}
                /\ {x \in sessions' : x.refresh_token = s.refresh_token} = {}
                /\ {x \in sessions' : x.user_id # s.user_id}
                      = {x \in sessions : x.user_id # s.user_id}]_vars

\* The admin logged out while the student's session stays
C16_Witness ==
    /\ pc["p1"] = "idle"
    /\ req["p1"].action = "logout"
    /\ resp["p1"].success
    /\ \E l \in BagToSet(activity_logs) : l.action = "logout" /\ l.user_id = "adm"
    /\ UserSessions(sessions, "adm") = {}
    /\ UserSessions(sessions, "stu") # {}

LoginPcs == {"login_check", "login_verify", "login_delete", "login_insert"}

\* C17: a login request rewrites the stored password hash only when the stored
\* hash is in the legacy form and the submitted password equals it, and a
\* login that ends rejected (no session issued) leaves every stored hash as
\* the request found it.
C17_UpgradeOnlyOnSuccess ==
    [][\A p \in Procs :
          pc[p] \in LoginPcs
          => /\ \A a \in Accounts :
                   users'[a].password_hash # users[a].password_hash
                   => /\ users[a].password_hash.fmt = "plain"
                      /\ users[a].password_hash.text = SanitizeInput(req[p].password)
                      /\ users'[a].password_hash.fmt = "pbkdf2"
             /\ (pc'[p] = "idle" /\ ~resp'[p].success)
                => \A a \in Accounts :
                      users'[a].password_hash =
                          IF a = loc[p].uid THEN loc[p].hash
                                            ELSE users[a].password_hash]_vars

\* The step appends one LoginAttempt row for the request of slot p
AttemptAppended(p, success) ==
    \E a \in BagToSet(login_attempts') :
        /\ a.ip_address = req[p].ip
        /\ a.success = success
        /\ a.created_at = now
        /\ CopiesIn(a, login_attempts') = CopiesIn(a, login_attempts) + 1

\* The step appends one audit-log entry for the request of slot p
LogAppended(p) ==
    \E l \in BagToSet(activity_logs') :
        /\ l.ip_address = req[p].ip
        /\ l.user_agent = req[p].user_agent
        /\ l.action \in {"login_success", "login_failed"}
        /\ activity_logs' = activity_logs (+) SetToBag({l})

\* C18: every authentication outcome of a request (blocked address, wrong
\* password, device mismatch, successful login) appends one LoginAttempt row
\* with the matching success flag and one audit-log entry with the actor, the
\* reason, the caller address and the user agent.
C18_OutcomeRecorded ==
    [][\A p \in Procs :
          /\ ( /\ pc[p] # "idle" /\ pc'[p] = "idle"
               /\ resp'[p].reason = "ip_blocked" )
             => AttemptAppended(p, FALSE) /\ LogAppended(p)
          /\ ( /\ pc[p] = "login_verify" /\ pc'[p] = "idle"
               /\ resp'[p].status \in {401, 403} )
             => /\ AttemptAppended(p, FALSE)
                /\ LogAppended(p)
                /\ \E l \in BagToSet(activity_logs') :
                      /\ l.user_id = loc[p].uid
                      /\ l.reason \in {"wrong_password", "device_mismatch"}
                      /\ CopiesIn(l, activity_logs') = CopiesIn(l, activity_logs) + 1
          /\ ( pc[p] = "login_verify" /\ pc'[p] = "login_delete" )
             => AttemptAppended(p, TRUE)
          /\ ( pc[p] = "login_insert" /\ resp'[p].success )
             => /\ LogAppended(p)
                /\ \E l \in BagToSet(activity_logs') :
                      /\ l.user_id = loc[p].uid
                      /\ l.action = "login_success"
                      /\ CopiesIn(l, activity_logs') = CopiesIn(l, activity_logs) + 1]_vars

\* The step wrote no activity log
NoLogWritten == activity_logs' = activity_logs

\* C19: a failing write of the audit log at any logging step of a check-in
\* (no enrolled face, location rejected, face mismatch, present) leaves the
\* Result shown to the student what that step shows, and the attendance write
\* of the attempt is made and stays.
C19_LogFailureSwallowed ==
    [][\A c \in Clients :
          /\ ( /\ task[c].pc = "cc_write" /\ task'[c].pc = "idle" /\ NoLogWritten )
             => /\ checkin'[c].checkResult = Result(TRUE, "present", "checked_in")
                /\ \E r \in PairRows(attendance', task[c].lesson.id, Student) :
                      r.status = "present"
          /\ ( /\ task[c].pc = "cc_gate" /\ task'[c].pc = "idle" /\ NoLogWritten )
             => /\ checkin'[c].checkResult.shown
                /\ checkin'[c].checkResult.status = "rejected"
                /\ attendance' = attendance
          /\ ( /\ task[c].pc = "ff_upsert" /\ task'[c].pc = "idle" /\ NoLogWritten )
             => /\ checkin'[c].checkResult = checkin[c].checkResult
                /\ checkin[c].checkResult =
                      Result(FALSE, "suspicious", "face_mismatch")
                /\ \E r \in PairRows(attendance', task[c].lesson.id, Student) :
                      r.status = "suspicious"
          /\ ( /\ checkin[c].step = "pin" /\ checkin'[c].step = "result"
               /\ checkin'[c].locationData.has /\ NoLogWritten )
             => /\ checkin'[c].checkResult =
                      Result(FALSE, "suspicious", "no_face_id")
                /\ attendance' = attendance]_vars

\* The student is shown present and the present row is written although the
\* checkin_success entry could not be written
C19_Witness ==
    /\ task["c1"].pc = "idle"
    /\ checkin["c1"].step = "result"
    /\ checkin["c1"].checkResult = Result(TRUE, "present", "checked_in")
    /\ \E r \in attendance : r.student_id = Student /\ r.status = "present"
    /\ \A l \in BagToSet(activity_logs) : l.action # "checkin_success"

NotEnrolled == users[Student].face_embedding.len = 0

C21_LivenessGate ==
    [][\A c \in Clients :
          /\ task'[c].pc \in {"hc_embedding", "hc_import"}
                 => task'[c].livenessPass >= MinLivenessPass
          /\ (/\ task[c].pc = "hc_checked"
              /\ task[c].livenessPass < MinLivenessPass
              /\ task'[c] # task[c])
                 => /\ task'[c] = NoTask
                    /\ checkin'[c] = checkin[c]
                    /\ attendance' = attendance
                    /\ activity_logs' = activity_logs
                    /\ faceCapture[c].mounted
                           => /\ faceCapture'[c].mounted
                              /\ faceCapture'[c].status = "ready"]_vars

C21_Witness ==
    /\ task["c1"].pc = "hc_checked"
    /\ task["c1"].livenessPass = 1
    /\ faceCapture["c1"].mounted
    /\ faceCapture["c1"].status = "detecting"
    /\ checkin["c1"].step = "face"

\* C22: once the page is back at the PIN entry, with the PIN, the lesson data,
\* the location data and the result cleared by the reset, it stays there until
\* a PIN is submitted: no handler of that client shows a result or writes an
\* attendance row, also when the reset came while the abandoned attempt had a
\* handler in flight.
C22_ResetStaysInPinEntry ==
    [][\A c \in Clients :
          (/\ checkin[c].step = "pin"
           /\ checkin[c].pin = ""
           /\ checkin[c].lessonData = NoLesson
           /\ checkin[c].locationData = NoLocation
           /\ ~checkin[c].checkResult.shown)
              => /\ \/ checkin'[c].step = "pin"
                    \/ checkin'[c].pin # ""
                 /\ attendance' # attendance => task'[c] = task[c]]_vars

\* C23: every stream startCamera obtained can still be stopped, and is stopped
\* once the capture is gone: no stream is left open outside the component's
\* reach, and after the component was unmounted and its camera start has
\* resolved no stream is open.
C23_EveryStreamStopped ==
    \A c \in Clients :
        /\ media[c].leaked = 0
        /\ ~faceCapture[c].mounted => ~faceCapture[c].stream

\* The token belongs to a session of an administrator that expires at or
\* after the given time
AdminSession(token, time) ==
    \E s \in sessions :
        s.token = token /\ s.expires_at >= time /\ users[s.user_id].role = "admin"

C25_LeavesFaceGate ==
    \A c \in Clients :
        (checkin[c].step = "face") ~> (checkin[c].step \in {"result", "pin"})

\* C26: in every session row, after the login and after every refresh made
\* inside the refresh window, the refresh expiry is later than the access
\* expiry.
C26_RefreshExpiryLater ==
    \A s \in sessions : s.refresh_expires_at > s.expires_at

\* C27: a login that is answered without success leaves the sessions table as
\* it was when the request arrived: where no clock step and no logout comes
\* between, every account that was issued a session still has one that
\* validates when a login has been refused.
C27_RejectedLoginKeepsSessions ==
    [][\A p \in Procs :
          (pc[p] \in LoginPcs /\ pc'[p] = "idle" /\ ~resp'[p].success)
             => /\ sessions' = sessions
                /\ \A i \in issued :
                      \E s \in sessions' : s.user_id = i.uid /\ s.expires_at >= now]_vars

\* C28: when a refresh returns success with the access token t, a session row
\* holding t exists at that moment, whatever login, logout or other refresh
\* was served while the refresh was in flight.
C28_RefreshedTokenStored ==
    [][\A p \in Procs :
          (pc[p] = "refresh_update" /\ pc'[p] = "idle" /\ resp'[p].success)
             => \E s \in sessions' : s.token = resp'[p].token]_vars

\* C29: however the logins of a student account without a stored fingerprint
\* interleave, one fingerprint ends up bound and every login that was answered
\* with a session carried that fingerprint.
C29_OnlyBoundDeviceGetsSession ==
    (\A q \in Procs : pc[q] = "idle")
       => \A p \in Procs :
             (req[p].action = "login" /\ resp[p].success /\ resp[p].uid = Student)
                => req[p].fingerprint = users[Student].device_fingerprint

\* C30: a check-in handler writes an attendance row only while the lesson of
\* its attempt is active and the PIN of that lesson has not expired at the
\* moment of the write.
C30_WriteOnlyWhilePinValid ==
    [][\A c \in Clients :
          (/\ task[c].pc \in {"ff_upsert", "cc_write"}
           /\ task'[c] # task[c]
           /\ attendance' # attendance)
             => \E l \in lessons : /\ l.id = task[c].lesson.id
                                   /\ l.is_active
                                   /\ l.pin_expires_at >= now]_vars

====
